---- MODULE Spec2Model ----
(***************************************************************************)
(* Model of the MCP proxy (services/agenticwork-mcp-proxy): the provider   *)
(* lifecycle and stdio request transport of mcp_manager.py and the access  *)
(* decisions of main.py.                                                   *)
(*                                                                         *)
(* The proxy runs on one asyncio event loop.  A coroutine runs atomically  *)
(* from one await that really suspends to the next, so every action below  *)
(* is one such segment.  MCPServer.send_request contains no await: while   *)
(* it blocks in readline() no other coroutine of the proxy runs; only the  *)
(* child processes (the environment) move.                                 *)
(***************************************************************************)
EXTENDS Integers, Sequences, FiniteSets, TLC

\* ------------------------------------------------------------------ bounds
MaxOps == 3         \* operations begun in one behaviour (start_all is the first)
MaxSpawn == 2       \* child processes spawned in one behaviour
MaxObjs == 3        \* MCPServer objects constructed in one behaviour
MaxNoise == 1       \* unsolicited lines (notifications, blank lines) children write
MaxCalls == 1       \* requests the HTTP facade receives in one behaviour
MaxTicks == 1       \* ticks the clock of the user sessions advances in one behaviour
MaxLines == 10      \* notifications a child writes in one behaviour of the read loop

\* ------------------------------------------------------- program constants
max_attempts == 10  \* mcp_manager.py:138

\* "awp_admin" and "awp_kubernetes" are built in (mcp_manager.py:207, 225);
\* "awp_azure" is a built-in server (mcp_manager.py:320-331) that a deployment
\* may leave out and a dynamic add_server may then add under that name;
\* "awp_agenticode" (mcp_manager.py:500) is one of the two providers whose
\* calls get the principal's id (main.py:809).
AllNames == {"awp_admin", "awp_kubernetes", "awp_azure", "awp_agenticode"}
\* the names of the lifecycle specification, where AWP_ADMIN_MCP_DISABLED is
\* set (mcp_manager.py:194)
Names == {"awp_kubernetes", "awp_azure"}
\* the coroutines (HTTP handlers) that may be in progress at once
Tasks == {"t1", "t2"}

STOPPED == "stopped"
STARTING == "starting"
RUNNING == "running"
FAILED == "failed"

\* ------------------------------------------------------------ JSON-RPC ids
\* An id is None, an integer or a string.
NoneId == [k |-> "none", n |-> 0, s |-> ""]
IntId(i) == [k |-> "int", n |-> i, s |-> ""]
StrId(x) == [k |-> "str", n |-> 0, s |-> x]
\* a generated id f"...-{uuid4().hex[:8]}": the text and its random part n
UniqueId(x, n) == [k |-> "str", n |-> n, s |-> x]

Digits == <<"0", "1", "2", "3", "4", "5", "6", "7", "8", "9">>

\* Python str() of an id (integers below 10 are all the model writes).
PyStr(id) == IF id.k = "int" THEN Digits[id.n + 1] ELSE id.s

\* mcp_manager.py:150-151  str(x) if x is not None else None
Normalized(id) == IF id.k = "none" THEN [none |-> TRUE, s |-> "", u |-> 0]
                  ELSE [none |-> FALSE, s |-> PyStr(id),
                        u |-> IF id.k = "str" THEN id.n ELSE 0]

\* a send_request that returns the first line it reads
IdsMatch_FirstLine(request_id, response_id) == TRUE

\* a send_request that takes a line without id for an answer
IdsMatch_NoneMatches(request_id, response_id) ==
  response_id.k = "none" \/ Normalized(request_id) = Normalized(response_id)

\* mcp_manager.py:153
IdsMatch(request_id, response_id) == Normalized(request_id) = Normalized(response_id)

\* ids the callers of route_request use: main.py:1486 and 1191 (integer 1)
\* and main.py:231, 836 (a string the caller chooses).
CallIds == {IntId(1), StrId("c2")}
InitId == IntId(0)  \* mcp_manager.py:80

\* the same id as a child may echo it with the other JSON type
Echoes(id) == {id} \cup {j \in {IntId(0), IntId(1), StrId("0"), StrId("1")} :
                            j # id /\ Normalized(j) = Normalized(id)}

\* ------------------------------------------------------------------- state
VARIABLES
  servers,    \* MCPManager.servers: name -> object number (0: not registered)
  objs,       \* the MCPServer objects: config.name, config.enabled, process, status, last_error
  nobjs,      \* MCPServer objects constructed so far
  children,   \* the child processes spawned: owner object, alive, stdin, stdout,
              \* and the (normalized) request ids written to it so far
  nspawn,     \* children spawned so far
  redis,      \* mcp:server:enabled:{name} in the key-value store
  tasks,      \* the coroutines: operation, arguments, position, outcome
  nops,       \* operations begun so far
  noise,      \* unsolicited lines written so far
  ev,         \* the operation that returned in the last step, if one did
  auth,       \* the call of get_user_info in progress or just over
  fleet       \* the UserSessionManager: sessions, their child processes, its coroutines

vars == <<servers, objs, nobjs, children, nspawn, redis, tasks, nops, noise, ev, auth, fleet>>

NoObj == [name |-> "", enabled |-> FALSE, process |-> 0, status |-> STOPPED, last_error |-> "none"]
NoChild == [owner |-> 0, alive |-> FALSE, stdin |-> <<>>, stdout |-> <<>>, seen |-> {}]
\* a request: its id, method, the serial of the call it belongs to, and what
\* route_request put into params.arguments: under which key, which token
\* a key that a JSON object does not hold
Absent == "<absent>"
\* arg_user_id and api_key are params.arguments.user_id and whether
\* params.arguments.api_key was put in by the proxy
NoReq == [id |-> NoneId, method |-> "", tag |-> 0, token_key |-> "", user_token |-> "none",
          arg_user_id |-> Absent, api_key |-> FALSE]
\* the caller's params as far as main.py:806-831 reads them: is there an
\* 'arguments' key, what arguments.user_id is, and whether the tool is a
\* serverless one called without arguments.api_key under an awc_ key
NoArgs == [has_arguments |-> FALSE, user_id |-> Absent, awc_key |-> FALSE]
NoLine == [kind |-> "none", id |-> NoneId, tag |-> 0, tools |-> {}, error |-> "none"]

\* what an HTTP handler knows: the principal (is_admin, groups), the request
\* (server, tool, id), the loop index of list_all_tools and of auto-detection,
\* the servers listed and their tools, the children it wrote to, the target
\* it chose, and its answer (status, detail, catalogue)
\* MCPResponse (main.py:234-239): result, error, id
NoEnvelope == [result |-> "none", error |-> "none", id |-> NoneId]
\* the access map before any summary is merged (main.py:278)
NoPolicies == [n \in AllNames |-> "none"]
NoHttp == [admin |-> FALSE, groups |-> <<>>, server |-> "", tool |-> "", id |-> NoneId,
           i |-> 0, retry |-> FALSE, listed |-> {}, all_tools |-> {}, wrote |-> {},
           target |-> "", token |-> "none", user_id |-> "", id_token |-> FALSE,
           shared_sp |-> FALSE, args |-> NoArgs, audit |-> <<>>, envelope |-> NoEnvelope, probed |-> <<>>,
           status |-> 0, detail |-> "", by_server |-> {}, tools |-> {},
           policies |-> NoPolicies]

IdleTask == [op |-> "none", name |-> "", obj |-> 0, arg |-> FALSE, pc |-> "idle",
             k |-> "none", waitc |-> 0, req |-> NoReq, attempts |-> 0, fresh |-> FALSE,
             seq |-> 0, alone |-> FALSE, again |-> FALSE, h |-> NoHttp]

\* a return: the operation, the request of its last send_request, how that
\* send_request ended (res "none": the operation made none), the line it
\* returned, the lines it skipped, whether the request's id was new to the
\* child, whether no other operation was in progress while this one was, and
\* whether the operation repeated the one that returned before it
NoEv == [op |-> "none", name |-> "", obj |-> 0, arg |-> FALSE, req |-> NoReq,
         res |-> "none", err |-> "none", line |-> NoLine, attempts |-> 0,
         fresh |-> FALSE, alone |-> FALSE, again |-> FALSE, h |-> NoHttp]

\* a principal as get_user_info returns it: user_id, is_admin, groups, and
\* what 'token' holds ("none", the "SYSTEM_SP_AUTH" marker, or the "bearer")
NoPrincipal == [user_id |-> "", admin |-> FALSE, groups |-> {}, token |-> "none"]
NoToken == [prefix |-> "", body |-> "", form |-> "raw"]
\* a call of get_user_info: position, bearer, the two service keys of the
\* environment, the paths on which validation failed, the outcome (status 0:
\* a principal is returned), and what the IdP path read
NoAuth == [pc |-> "idle", token |-> NoToken, flowise_api_key |-> NoToken,
           api_internal_key |-> NoToken, failed |-> {}, path |-> "none",
           status |-> 0, principal |-> NoPrincipal,
           user_groups |-> {}, authorized_user_groups |-> {}, authorized_admin_groups |-> {}]

\* ---- the user sessions (user_session_manager.py)
Users == {"u1", "u2"}
\* the coroutines that call the UserSessionManager: two request handlers and
\* the cleanup_loop task
Callers == {"a", "b"}
Sweeper == "cleanup_loop"
Cos == Callers \cup {Sweeper}
AccessTokens == {"tok1", "tok2"}

\* is_stale's default max_idle_minutes, and the minutes of one clock tick
max_idle_minutes == 60
TickMinutes == 90

\* UserSession (the key of the dict is its user_id); process 0: no entry
NoSession == [present |-> FALSE, process |-> 0, access_token |-> "", created_at |-> 0,
              last_accessed_at |-> 0, tools |-> "none"]
\* a child of the session manager: whose it is, process.poll() is None, the
\* line it has written ("none": nothing yet), whether that line has been
\* read, and the method that has deleted its entry from the dict ("none":
\* not deleted)
NoProc == [user |-> "", alive |-> FALSE, out |-> "none", read |-> FALSE, removed |-> "none"]
\* a coroutine: the method it runs, its user_id, its position, the process it
\* holds, its access_token, whether response_data holds a line that was no
\* answer, and for cleanup_stale_sessions the rest of stale_user_ids
NoFrame == [op |-> "none", user |-> "", pc |-> "idle", proc |-> 0, token |-> "",
            garbled |-> FALSE, todo |-> <<>>]
\* cleanup_loop inside asyncio.sleep(interval_minutes * 60)
Sleeping == [NoFrame EXCEPT !.op = "cleanup_loop", !.pc = "sleep"]
\* the call that returned or raised in the last step: res is the status or
\* value returned or the exception raised, proc the process of the session the
\* call found or made, removed the process of the entry it deleted, skipped
\* the stale_user_ids a sweep has left unprocessed
NoLast == [co |-> "", op |-> "none", user |-> "", res |-> "none", proc |-> 0, removed |-> 0,
           skipped |-> <<>>]

\* UserSessionManager.__init__, and start_periodic_cleanup of the lifespan;
\* order is the insertion order of the sessions dict
NoFleet == [sessions |-> [u \in Users |-> NoSession], order |-> <<>>,
            procs |-> [p \in 1..MaxSpawn |-> NoProc], nproc |-> 0, now |-> 0,
            co |-> [c \in Cos |-> IF c = Sweeper THEN Sleeping ELSE NoFrame],
            nops |-> 0, last |-> NoLast]

\* MCPServer.__init__
NewServer(name, enabled) ==
  [name |-> name, enabled |-> enabled, process |-> 0, status |-> STOPPED, last_error |-> "none"]

\* process.poll() is None
Alive(ch, c) == c # 0 /\ ch[c].alive

\* live children spawned for the provider named p
LiveChildren(p) == {c \in 1..nspawn : children[c].alive /\ objs[children[c].owner].name = p}

\* a coroutine is between two synchronous send_requests or inside one: the
\* event loop is blocked
Busy == \E t \in Tasks : tasks[t].pc \in {"read", "list_next", "detect_next", "gate"}

\* a manager that keeps the build-time default
load_enabled_states_from_redis_Default(value, default, loaded) == default

\* _load_enabled_states_from_redis for one server, mcp_manager.py:810-819:
\* value is what the store holds, default the flag of initialize_servers;
\* loaded is false when the read raises
load_enabled_states_from_redis(value, default, loaded) ==
  IF loaded /\ value # "none" THEN value = "true" ELSE default

\* MCPManager.__init__: the built-in server is constructed enabled, then the
\* persisted flag overrides the default (_load_enabled_states_from_redis).
Init ==
  /\ redis \in {[n \in AllNames |-> IF n = "awp_kubernetes" THEN v ELSE "none"] :
                  v \in {"none", "false"}}
  /\ servers = [n \in AllNames |-> IF n = "awp_kubernetes" THEN 1 ELSE 0]
  /\ objs = [o \in 1..MaxObjs |->
               IF o = 1
               THEN NewServer("awp_kubernetes",
                              load_enabled_states_from_redis(redis["awp_kubernetes"], TRUE, TRUE))
               ELSE NoObj]
  /\ nobjs = 1
  /\ children = [c \in 1..MaxSpawn |-> NoChild]
  /\ nspawn = 0
  /\ tasks = [t \in Tasks |-> IdleTask]
  /\ nops = 0
  /\ noise = 0
  /\ ev = NoEv
  /\ auth = NoAuth
  /\ fleet = NoFleet

\* --------------------------------------------------- segments of coroutines
\* Each operator below sets servers', objs', children', nspawn' and tasks'.
\* tk is the record of the running task, ob and ch the objects and children
\* as the segment has changed them so far, sv the registry.

\* the operation returns (res, err: how its last send_request ended)
Done(t, tk, sv, ob, ch, res, err, line) ==
  /\ servers' = sv
  /\ objs' = ob
  /\ children' = ch
  /\ nspawn' = nspawn
  /\ tasks' = [tasks EXCEPT ![t] = IdleTask]
  /\ ev' = [op |-> tk.op, name |-> tk.name, obj |-> tk.obj, arg |-> tk.arg,
            req |-> tk.req, res |-> res, err |-> err, line |-> line,
            attempts |-> tk.attempts, fresh |-> tk.fresh,
            alone |-> tk.alone /\ tk.seq >= nops, again |-> tk.again, h |-> tk.h]

\* MCPServer.start up to "await asyncio.sleep(1)"
StartEnter(t, tk, sv, ob, ch, o) ==
  IF ob[o].status = RUNNING
  THEN Done(t, tk, sv, ob, ch, "none", "none", NoLine)
  ELSE \/ /\ nspawn < MaxSpawn                     \* Popen succeeds
          /\ servers' = sv
          /\ objs' = [ob EXCEPT ![o].status = STARTING, ![o].process = nspawn + 1]
          /\ children' = [ch EXCEPT ![nspawn + 1] =
                            [owner |-> o, alive |-> TRUE, stdin |-> <<>>, stdout |-> <<>>,
                             seen |-> {}]]
          /\ nspawn' = nspawn + 1
          /\ tasks' = [tasks EXCEPT ![t] = [tk EXCEPT !.pc = "start_sleep"]]
          /\ ev' = NoEv
       \/ \* Popen raises: the outer except of start
          Done(t, tk, sv, [ob EXCEPT ![o].status = FAILED, ![o].last_error = "exc"], ch,
               "none", "none", NoLine)

\* del self.servers[server_id] at the end of remove_server
Delete(t, tk, sv, ob, ch) ==
  IF sv[tk.name] = 0
  THEN Done(t, tk, sv, ob, ch, "error", "KeyError", NoLine)
  ELSE Done(t, tk, [sv EXCEPT ![tk.name] = 0], ob, ch, "none", "none", NoLine)

\* what the caller of MCPServer.stop does when stop has returned
AfterStop(t, tk, sv, ob, ch, o, k) ==
  IF k = "start" THEN StartEnter(t, tk, sv, ob, ch, o)
  ELSE IF k = "del" THEN Delete(t, tk, sv, ob, ch)
  ELSE Done(t, tk, sv, ob, ch, "none", "none", NoLine)

\* MCPServer.stop up to "await asyncio.wait_for(...)"; k is what follows stop
StopEnter(t, tk, sv, ob, ch, o, k) ==
  LET c == ob[o].process IN
  IF Alive(ch, c)
  THEN /\ servers' = sv
       /\ objs' = ob
       /\ children' = ch            \* process.terminate(): the child exits later
       /\ nspawn' = nspawn
       /\ tasks' = [tasks EXCEPT ![t] = [tk EXCEPT !.pc = "stop_wait", !.k = k, !.waitc = c]]
       /\ ev' = NoEv
  ELSE AfterStop(t, tk, sv, ob, ch, o, k)

\* the coroutine goes on as tk; nothing returns
Continue(t, tk, sv, ob, ch) ==
  /\ servers' = sv
  /\ objs' = ob
  /\ children' = ch
  /\ nspawn' = nspawn
  /\ tasks' = [tasks EXCEPT ![t] = tk]
  /\ ev' = NoEv

\* an envelope that carries the id of the child's line
Envelope_ChildId(tk, res, line) ==
  IF res = "ok"
  THEN [result |-> IF line.error = "none" THEN "result" ELSE "none",
        error |-> line.error, id |-> line.id]
  ELSE [result |-> "none", error |-> "500", id |-> tk.h.id]

\* the MCPResponse of proxy_mcp_request: the child's result and error with the
\* caller's id (main.py:870-876), or error code 500 (main.py:904-912)
Envelope(tk, res, line) ==
  IF res = "ok"
  THEN [result |-> IF line.error = "none" THEN "result" ELSE "none",
        error |-> line.error, id |-> tk.h.id]
  ELSE [result |-> "none", error |-> "500", id |-> tk.h.id]

\* main.py:809
servers_needing_user_id == {"awp_agenticwork_cli", "awp_agenticode"}

\* mcp_request.params as send_mcp_log_to_api receives it (main.py:862, 897).
\* request_data["params"] is mcp_request.params itself (main.py:806, 838)
\* unless the target needs a user_id, for which it is a copy with a copied
\* arguments object (main.py:812-814); route_request writes the token into
\* request["params"]["arguments"]["meta"] in place (mcp_manager.py:605-614).
\* "none" is a params object without userAccessToken.
AuditParams(tk) ==
  [userAccessToken |->
     IF /\ tk.req.method = "tools/call" /\ tk.req.token_key = "meta"
        /\ tk.h.target \notin servers_needing_user_id
     THEN tk.req.user_token
     ELSE "none"]

\* the end of proxy_mcp_request (main.py:843-912: an exception becomes an
\* error envelope) and of /call (main.py:1520-1530: an exception becomes 500)
FinishCall(t, tk, sv, ob, ch, res, err, line) ==
  Done(t, [tk EXCEPT !.h.status = IF res = "ok" \/ tk.op # "/call" THEN 200 ELSE 500,
                     !.h.detail = IF res = "ok" THEN "result" ELSE err,
                     !.h.envelope = IF tk.op # "/call" THEN Envelope(tk, res, line) ELSE @,
                     \* send_mcp_log_to_api, main.py:852-868 and 887-902
                     !.h.audit = IF tk.op # "/call" /\ tk.h.user_id # ""
                                 THEN Append(@, [success |-> res = "ok",
                                                 error |-> IF res = "ok" THEN "none" ELSE "500",
                                                 params |-> AuditParams(tk)])
                                 ELSE @],
       sv, ob, ch, res, err, line)

\* a detection that takes the first provider that answers
ToolInAnswer_AnyAnswer(tool_name, res, line) == res = "ok"

\* main.py:725-727: the response has a result with tools, the name is among them
ToolInAnswer(tool_name, res, line) == res = "ok" /\ tool_name \in line.tools

\* what the caller of send_request does when it has returned or raised
Return(t, tk, sv, ob, ch, res, err, line) ==
  LET name == ob[tk.obj].name IN
  IF tk.k = "list"
  THEN \* list_all_tools, mcp_manager.py:784-800
       IF res = "ok" /\ line.error = "-32602" /\ ~tk.h.retry
       THEN Continue(t, [tk EXCEPT !.pc = "list_next", !.h.retry = TRUE], sv, ob, ch)
       ELSE Continue(t, [tk EXCEPT !.pc = "list_next", !.h.i = @ + 1, !.h.retry = FALSE,
                                   !.h.listed = @ \cup {name},
                                   !.h.all_tools = @ \cup {<<name, tl>> : tl \in line.tools}],
                     sv, ob, ch)
  ELSE IF tk.k = "detect"
  THEN \* main.py:724-733
       \* probed: the providers asked so far, and whether the answer held the name
       LET tkp == [tk EXCEPT !.h.probed =
                     Append(@, [name |-> name, has |-> tk.h.tool \in line.tools])] IN
       IF ToolInAnswer(tk.h.tool, res, line)
       THEN Continue(t, [tkp EXCEPT !.pc = "gate", !.h.target = name], sv, ob, ch)
       ELSE Continue(t, [tkp EXCEPT !.pc = "detect_next", !.h.i = @ + 1], sv, ob, ch)
  ELSE IF tk.k = "call"
  THEN FinishCall(t, tk, sv, ob, ch, res, err, line)
  ELSE Done(t, tk, sv, ob, ch, res, err, line)

\* stdin.write of MCPServer.send_request, after its guard at line 123
SendEnter(t, tk0, sv, ob, ch, o, req, k) ==
  LET c == ob[o].process
      tk == [tk0 EXCEPT !.obj = o, !.k = k, !.attempts = 0] IN
  IF ob[o].status # RUNNING \/ c = 0
  THEN Return(t, tk, sv, ob, ch, "error", "not_running", NoLine)
  ELSE IF ~ch[c].alive
  THEN \* BrokenPipeError; the except clause finds the process dead
       Return(t, [tk EXCEPT !.req = req], sv,
              [ob EXCEPT ![o].status = FAILED, ![o].last_error = "died"], ch,
              "error", "broken_pipe", NoLine)
  ELSE Continue(t, [tk EXCEPT !.pc = "read", !.req = req,
                              !.fresh = Normalized(req.id) \notin ch[c].seen,
                              !.h.wrote = @ \cup {ob[o].name}],
                sv, ob,
                [ch EXCEPT ![c].stdin = Append(@, req),
                           \* the ids sent so far; a generated id never repeats
                           ![c].seen = IF Normalized(req.id).u = 0
                                       THEN @ \cup {Normalized(req.id)} ELSE @])

\* --------------------------------------------------------------- actions
\* A request handler begins when startup (lifespan: start_all) is over; it
\* takes the first free coroutine slot.
Booting == \E t \in Tasks : tasks[t].op = "start_all"

CanBegin(t) ==
  /\ tasks[t].pc = "idle"
  /\ t = "t2" => tasks["t1"].pc # "idle"
  /\ ~Busy /\ ~Booting
  /\ nops >= 1 /\ nops < MaxOps

NewTask(op, name, arg) ==
  [IdleTask EXCEPT !.op = op, !.name = name, !.obj = servers[name], !.arg = arg,
                   !.seq = nops + 1]

Rest == /\ nops' = nops + 1
        /\ UNCHANGED <<nobjs, redis, noise, auth, fleet>>

\* MCPManager.start_all at startup, over the one built-in server
StartAll(t) ==
  /\ nops = 0
  /\ t = "t1"
  /\ LET tk == NewTask("start_all", "awp_kubernetes", FALSE)
         o == servers["awp_kubernetes"] IN
     IF objs[o].enabled
     THEN StartEnter(t, tk, servers, objs, children, o)
     ELSE Done(t, tk, servers, objs, children, "none", "none", NoLine)
  /\ Rest

\* MCPManager.start_server
StartServer(t, server_id) ==
  /\ CanBegin(t)
  /\ LET tk == NewTask("start_server", server_id, FALSE) IN
     IF servers[server_id] = 0
     THEN Done(t, tk, servers, objs, children, "error", "ValueError", NoLine)
     ELSE StartEnter(t, tk, servers, objs, children, servers[server_id])
  /\ Rest

\* MCPManager.stop_server
StopServer(t, server_id) ==
  /\ CanBegin(t)
  /\ LET tk == NewTask("stop_server", server_id, FALSE) IN
     IF servers[server_id] = 0
     THEN Done(t, tk, servers, objs, children, "error", "ValueError", NoLine)
     ELSE StopEnter(t, tk, servers, objs, children, servers[server_id], "done")
  /\ Rest

\* MCPManager.restart_server
RestartServer(t, server_id) ==
  /\ CanBegin(t)
  /\ LET tk == NewTask("restart_server", server_id, FALSE) IN
     IF servers[server_id] = 0
     THEN Done(t, tk, servers, objs, children, "error", "ValueError", NoLine)
     ELSE StopEnter(t, tk, servers, objs, children, servers[server_id], "start")
  /\ Rest

\* MCPManager.remove_server
RemoveServer(t, server_id) ==
  /\ CanBegin(t)
  /\ LET tk == NewTask("remove_server", server_id, FALSE)
         o == servers[server_id] IN
     IF o = 0
     THEN Done(t, tk, servers, objs, children, "error", "ValueError", NoLine)
     ELSE IF objs[o].status = RUNNING
     THEN StopEnter(t, tk, servers, objs, children, o, "del")
     ELSE Delete(t, tk, servers, objs, children)
  /\ Rest

\* the call repeats the set_server_enabled that has just returned and that
\* no other operation has overlapped
Repeats(server_id, enabled) ==
  /\ ev.op = "set_server_enabled" /\ ev.res = "none" /\ ev.alone
  /\ ev.name = server_id /\ ev.arg = enabled

\* a set_server_enabled that leaves a Failed provider alone
action_taken_NoRetry(enabled, status) ==
  IF enabled /\ status \notin {RUNNING, FAILED} THEN "started"
  ELSE IF ~enabled /\ status = RUNNING THEN "stopped"
  ELSE "no_change"

\* mcp_manager.py:857-870
action_taken(enabled, status) ==
  IF enabled /\ status # RUNNING THEN "started"
  ELSE IF ~enabled /\ status = RUNNING THEN "stopped"
  ELSE "no_change"

\* _save_enabled_state_to_redis, mcp_manager.py:821-834; persisted is false
\* when the write to the store raises
save_enabled_state_to_redis(rd, server_name, enabled, persisted) ==
  IF persisted THEN [rd EXCEPT ![server_name] = IF enabled THEN "true" ELSE "false"] ELSE rd

\* MCPManager.set_server_enabled up to its first await, or to its end; tk is
\* the caller's task, tkerr the caller's task when ValueError is raised
set_server_enabled(t, tk, tkerr, server_id, enabled, persisted) ==
  LET o == servers[server_id] IN
  IF o = 0
  THEN /\ Done(t, tkerr, servers, objs, children, "error", "ValueError", NoLine)
       /\ redis' = redis
  ELSE /\ redis' = save_enabled_state_to_redis(redis, server_id, enabled, persisted)
       /\ LET ob == [objs EXCEPT ![o].enabled = enabled]
              action == action_taken(enabled, ob[o].status) IN
          IF action = "started"
          THEN StartEnter(t, tk, servers, ob, children, o)
          ELSE IF action = "stopped"
          THEN StopEnter(t, tk, servers, ob, children, o, "done")
          ELSE Done(t, tk, servers, ob, children, "none", "none", NoLine)

\* MCPManager.set_server_enabled called on the manager
SetServerEnabled(t, server_id, enabled, persisted) ==
  /\ CanBegin(t)
  /\ LET tk == [NewTask("set_server_enabled", server_id, enabled) EXCEPT
                  !.again = Repeats(server_id, enabled),
                  !.alone = \A u \in Tasks : tasks[u].pc = "idle"] IN
     set_server_enabled(t, tk, tk, server_id, enabled, persisted)
  /\ nops' = nops + 1
  /\ UNCHANGED <<nobjs, noise, auth, fleet>>

\* The configurations submitted to add_server: the flat shape {name, command,
\* enabled} and the container shape {mcpServers: {key: {command, enabled, ...}}},
\* whose entry may hold a name of its own.  Absent: the field is missing (a
\* container without key is an empty mcpServers object).
Submission(sh, k, n, c, e) == [shape |-> sh, key |-> k, name |-> n, command |-> c, enabled |-> e]
Submissions ==
  {Submission("flat", Absent, n, TRUE, e) : n \in Names, e \in BOOLEAN}
  \cup UNION {{Submission("container", k, n, TRUE, e) :
                  n \in (Names \ {k}) \cup {Absent}, e \in BOOLEAN} : k \in Names}
  \* invalid: no name, an empty mcpServers object, no command
  \cup {Submission("flat", Absent, Absent, TRUE, FALSE),
        Submission("container", Absent, Absent, TRUE, FALSE)}
  \cup {Submission("flat", Absent, n, FALSE, FALSE) : n \in Names}

\* the name a submission is filed under: the flat name, the container's key
SubmittedName(config) == IF config.shape = "container" THEN config.key ELSE config.name

\* mcp_manager.py:643-663: config = {"name": server_name, **server_config},
\* then config.get("name")
ConfigName(config) ==
  IF config.shape = "container" /\ config.name = Absent THEN config.key ELSE config.name

\* MCPManager.add_server
AddServer(t, config) ==
  /\ CanBegin(t)
  /\ LET name == ConfigName(config)
         enabled == config.enabled
         tk0 == [IdleTask EXCEPT !.op = "add_server", !.arg = enabled, !.seq = nops + 1] IN
     IF \/ config.shape = "container" /\ config.key = Absent  \* "mcpServers object is empty"
        \/ name = Absent \/ ~config.command                   \* a required field is missing
     THEN /\ Done(t, tk0, servers, objs, children, "error", "ValueError", NoLine)
          /\ nobjs' = nobjs
     ELSE IF servers[name] # 0
     THEN /\ Done(t, [tk0 EXCEPT !.name = name, !.obj = servers[name]], servers, objs, children,
                  "error", "ValueError", NoLine)
          /\ nobjs' = nobjs
     ELSE /\ nobjs < MaxObjs
          /\ nobjs' = nobjs + 1
          /\ LET o == nobjs + 1
                 tk == [tk0 EXCEPT !.name = name, !.obj = o]
                 sv == [servers EXCEPT ![name] = o]
                 ob == [objs EXCEPT ![o] = NewServer(name, enabled)] IN
             IF enabled THEN StartEnter(t, tk, sv, ob, children, o)
             ELSE Done(t, tk, sv, ob, children, "none", "none", NoLine)
  /\ nops' = nops + 1
  /\ UNCHANGED <<redis, noise, auth, fleet>>

\* MCPManager.route_request with no user token, then MCPServer.send_request
RouteRequest(t, server_name, id) ==
  /\ CanBegin(t)
  /\ LET tk == NewTask("route_request", server_name, FALSE)
         o == servers[server_name]
         req == [NoReq EXCEPT !.id = id, !.method = "tools/call", !.tag = nops + 1] IN
     IF o = 0
     THEN Done(t, tk, servers, objs, children, "error", "ValueError", NoLine)
     ELSE IF objs[o].status # RUNNING
     THEN Done(t, tk, servers, objs, children, "error", "not_running", NoLine)
     ELSE SendEnter(t, tk, servers, objs, children, o, req, "done")
  /\ Rest

\* MCPServer.stop after the await: the child has exited, or the wait timed
\* out and self.process is killed
StopResume(t) ==
  /\ tasks[t].pc = "stop_wait"
  /\ ~Busy
  /\ LET tk == tasks[t]
         o == tk.obj
         p == objs[o].process
         ob == [objs EXCEPT ![o].status = STOPPED] IN
     \/ /\ ~children[tk.waitc].alive
        /\ AfterStop(t, tk, servers, ob, children, o, tk.k)
     \/ /\ children[tk.waitc].alive
        /\ AfterStop(t, tk, servers, ob, [children EXCEPT ![p].alive = FALSE], o, tk.k)
  /\ UNCHANGED <<nobjs, redis, nops, noise, auth, fleet>>

\* MCPServer.start after the sleep: poll, then the initialize request
StartResume(t) ==
  /\ tasks[t].pc = "start_sleep"
  /\ ~Busy
  /\ LET tk == tasks[t]
         o == tk.obj
         c == objs[o].process IN
     IF Alive(children, c)
     THEN SendEnter(t, tk, servers, [objs EXCEPT ![o].status = RUNNING], children, o,
                    [NoReq EXCEPT !.id = InitId, !.method = "initialize", !.tag = tk.seq], "init")
     ELSE Done(t, tk, servers,
               [objs EXCEPT ![o].status = FAILED, ![o].last_error = "exited"], children,
               "none", "none", NoLine)
  /\ UNCHANGED <<nobjs, redis, nops, noise, auth, fleet>>

\* an except clause that re-raises without looking at the process
Raise_NoPoll(t, tk, ch, o, err) ==
  Return(t, tk, servers, objs, ch, "error", err, NoLine)

\* the except clause of send_request: FAILED only if the process is dead
Raise(t, tk, ch, o, err) ==
  Return(t, tk, servers,
       IF Alive(ch, objs[o].process) THEN objs
       ELSE [objs EXCEPT ![o].status = FAILED, ![o].last_error = "died"],
       ch, "error", err, NoLine)

\* one iteration of the read loop of MCPServer.send_request
ReadLine(t) ==
  /\ tasks[t].pc = "read"
  /\ LET tk == tasks[t]
         o == tk.obj
         c == objs[o].process
         out == children[c].stdout IN
     IF out = <<>>
     THEN /\ ~children[c].alive                   \* end of file: readline returns ''
          /\ Raise(t, tk, children, o, "empty")
     ELSE LET response == Head(out)
              ch == [children EXCEPT ![c].stdout = Tail(out)] IN
          IF response.kind = "blank"
          THEN Raise(t, tk, ch, o, "empty")
          ELSE IF IdsMatch(tk.req.id, response.id)
          THEN Return(t, tk, servers, objs, ch, "ok", "none", response)
          ELSE IF tk.attempts + 1 = max_attempts
          THEN Raise(t, [tk EXCEPT !.attempts = @ + 1], ch, o, "no_match")
          ELSE Continue(t, [tk EXCEPT !.attempts = @ + 1], servers, objs, ch)
  /\ UNCHANGED <<nobjs, redis, nops, noise, auth, fleet>>

\* ------------------------------------------------- the children (environment)
\* the tools a provider advertises in its tools/list result
ToolsOf(name) == IF name = "awp_admin" THEN {"admin_system_redis_get_key", "health_check"}
                 ELSE IF name = "awp_kubernetes" THEN {"k8s_list_pods", "health_check"}
                 ELSE IF name = "awp_agenticode" THEN {"run_agenticode_task", "health_check"}
                 ELSE {"upper", "health_check"}

\* the child answers the oldest request it has not answered yet
ChildRespond(c) ==
  /\ children[c].alive
  /\ children[c].stdin # <<>>
  /\ LET req == Head(children[c].stdin) IN
     \E id \in Echoes(req.id) :
       children' = [children EXCEPT ![c].stdin = Tail(@),
                      ![c].stdout = Append(@,
                         [kind |-> "json", id |-> id, tag |-> req.tag,
                          tools |-> IF req.method = "tools/list"
                                    THEN ToolsOf(objs[children[c].owner].name) ELSE {},
                          error |-> "none"])]
  /\ ev' = NoEv
  /\ UNCHANGED <<servers, objs, nobjs, nspawn, redis, tasks, nops, noise, auth, fleet>>

\* the child writes a notification (a JSON line without id) or a blank line
ChildNoise(c) ==
  /\ children[c].alive
  /\ noise < MaxNoise
  /\ \E kind \in {"json", "blank"} :
       children' = [children EXCEPT ![c].stdout =
                      Append(@, [kind |-> kind, id |-> NoneId, tag |-> 0, tools |-> {},
                                 error |-> "none"])]
  /\ noise' = noise + 1
  /\ ev' = NoEv
  /\ UNCHANGED <<servers, objs, nobjs, nspawn, redis, tasks, nops, auth, fleet>>

\* the child exits: on its own, or after terminate()
ChildExit(c) ==
  /\ children[c].alive
  /\ children' = [children EXCEPT ![c].alive = FALSE]
  /\ ev' = NoEv
  /\ UNCHANGED <<servers, objs, nobjs, nspawn, redis, tasks, nops, noise, auth, fleet>>

\* a child answers the oldest request with a JSON-RPC error object
ChildRespondError(c) ==
  /\ children[c].alive
  /\ children[c].stdin # <<>>
  /\ LET req == Head(children[c].stdin) IN
     \E code \in {"-32602", "-32000"}, id \in Echoes(req.id) :
       children' = [children EXCEPT ![c].stdin = Tail(@),
                      ![c].stdout = Append(@, [kind |-> "json", id |-> id, tag |-> req.tag,
                                               tools |-> {}, error |-> code])]
  /\ ev' = NoEv
  /\ UNCHANGED <<servers, objs, nobjs, nspawn, redis, tasks, nops, noise, auth, fleet>>

\* ------------------------------------------------------ the HTTP facade
\* main.py:337
AdminOnlyServers == {"admin", "awp_admin", "awp_kubernetes"}
\* main.py:756 and main.py:1477
admin_servers == {"admin", "awp_admin"}

Groups == {"g1", "g2"}

\* the principals get_user_info may produce, as far as the facade reads them
Principals == {[admin |-> TRUE, groups |-> <<"g1">>, token |-> "bearer", user_id |-> "u1"],
               [admin |-> TRUE, groups |-> <<"service-accounts">>, token |-> "SYSTEM_SP_AUTH",
                user_id |-> "api-service"],
               [admin |-> TRUE, groups |-> <<"system-admins">>, token |-> "none",
                user_id |-> "system-admin"],
               [admin |-> FALSE, groups |-> <<>>, token |-> "bearer", user_id |-> "u1"],
               [admin |-> FALSE, groups |-> <<>>, token |-> "bearer", user_id |-> ""],
               [admin |-> FALSE, groups |-> <<"g1", "g2">>, token |-> "bearer", user_id |-> "u1"]}

\* config.supports_obo: True for the built-in awp_azure (mcp_manager.py:329),
\* False by default (mcp_manager.py:37) for awp_admin and awp_kubernetes
supports_obo(name) == name = "awp_azure"
\* 'aws' in server.lower() or 'azure' in server.lower()  (main.py:1500)
NameIsCloud(name) == name = "awp_azure"

\* a proxy that passes the principal's bearer whatever the headers
McpUserToken_NoHeader(h, target_server) ==
  IF target_server \in AllNames /\ servers[target_server] # 0 /\ supports_obo(target_server)
     /\ ~h.shared_sp /\ h.token \notin {"none", "SYSTEM_SP_AUTH"}
  THEN h.token
  ELSE "none"

\* main.py:771-802; "none" is user_token = None
McpUserToken(h, target_server) ==
  IF target_server \in AllNames /\ servers[target_server] # 0 /\ supports_obo(target_server)
     /\ ~h.shared_sp /\ h.token \notin {"none", "SYSTEM_SP_AUTH"}
  THEN IF h.id_token THEN "id_token" ELSE h.token
  ELSE "none"

\* main.py:1492-1518
CallUserToken(h, server) ==
  IF h.token \notin {"none", "SYSTEM_SP_AUTH"}
  THEN IF NameIsCloud(server) /\ h.id_token THEN "id_token" ELSE h.token
  ELSE "none"

\* the params a caller may submit: POST /mcp takes any params, POST /mcp/tool
\* and POST /call build them with an arguments object (main.py:923-931, 1462-1468)
CallerArgs(endpoint) ==
  {[has_arguments |-> TRUE, user_id |-> u, awc_key |-> k] :
     u \in {Absent, "", "default", "u9"}, k \in BOOLEAN}
  \cup (IF endpoint = "/mcp" THEN {NoArgs} ELSE {})

\* main.py:806-819: arguments.user_id of the params sent on
ArgUserId(op, target_server, user_id, args) ==
  IF /\ op # "/call" /\ user_id # "" /\ target_server \in servers_needing_user_id
     /\ args.has_arguments /\ args.user_id \in {Absent, "", "default"}
  THEN user_id
  ELSE args.user_id

\* main.py:821-831: is the caller's awc_ key put into arguments.api_key
ArgApiKey(op, target_server, user_id, args) ==
  /\ op # "/call" /\ user_id # "" /\ target_server \in servers_needing_user_id
  /\ args.has_arguments /\ args.awc_key

\* an access_summary of the platform API: at most one item per answer here
Summaries == {<<>>} \cup {<<[name |-> n, access |-> a]>> : n \in AllNames, a \in {"allow", "deny"}}
\* the platform's answer for each group: status 200 with a summary, or a failure
PlatformAnswers(user_groups) ==
  [{user_groups[j] : j \in 1..Len(user_groups)} ->
     {[ok |-> FALSE, summary |-> <<>>]} \cup {[ok |-> TRUE, summary |-> x] : x \in Summaries}]

RECURSIVE MergeSummary(_, _)
\* main.py:301-309
MergeSummary(access_summary, access_map) ==
  IF access_summary = <<>> THEN access_map
  ELSE LET item == Head(access_summary) IN
       MergeSummary(Tail(access_summary),
                    IF access_map[item.name] = "none" \/ item.access = "allow"
                    THEN [access_map EXCEPT ![item.name] = item.access]
                    ELSE access_map)

RECURSIVE fetch_user_mcp_access_policies(_, _, _)
\* main.py:274-321; platform is what the API answers, access_map the map so far
fetch_user_mcp_access_policies(user_groups, platform, access_map) ==
  IF user_groups = <<>> THEN access_map
  ELSE LET answer == platform[Head(user_groups)] IN
       fetch_user_mcp_access_policies(Tail(user_groups), platform,
         IF answer.ok THEN MergeSummary(answer.summary, access_map) ELSE access_map)

\* main.py:323-345
check_server_access(server_name, user_groups, access_policies, is_admin) ==
  IF is_admin THEN TRUE
  ELSE IF access_policies[server_name] # "none" THEN access_policies[server_name] = "allow"
  ELSE IF server_name \in AdminOnlyServers THEN FALSE
  ELSE TRUE

RequestTools == {"admin_system_redis_get_key", "k8s_list_pods", "upper", "health_check", "missing"}

\* a request handler of the facade may begin
HttpCanBegin(t) == CanBegin(t) /\ nops <= MaxCalls

\* a handler's task; what it reads of its request and of its principal is
\* stored when it reads it
HttpTask(op, server, tool, id) ==
  [IdleTask EXCEPT !.op = op, !.name = server, !.seq = nops + 1,
                   !.h.server = server, !.h.tool = tool, !.h.id = id]

\* an invoking handler reads user_info, and on the paths of main.py:778-798
\* and main.py:1495-1504 the X-Azure-ID-Token header and AZURE_MCP_USE_SHARED_SP
WithPrincipal(tk, pr, target, id_token, shared_sp) ==
  LET obo == servers[target] # 0 /\ supports_obo(target)
      usable == pr.token \notin {"none", "SYSTEM_SP_AUTH"}
      reads_shared == tk.op # "/call" /\ obo
      reads_header == usable /\ IF tk.op = "/call" THEN NameIsCloud(target)
                                ELSE obo /\ ~shared_sp IN
  [tk EXCEPT !.h.admin = pr.admin, !.h.token = pr.token, !.h.user_id = pr.user_id,
             !.h.id_token = reads_header /\ id_token,
             !.h.shared_sp = reads_shared /\ shared_sp]

\* the arguments of the call, followed here for the providers of main.py:809
WithArgs(tk, target, args) ==
  [tk EXCEPT !.h.args = IF target \in servers_needing_user_id THEN args ELSE NoArgs]

\* the tag and the random part of the j-th request of a handler
ReqTag(tk, j) == tk.seq * 8 + j

\* is object i the i-th entry of self.servers, and Running
RunningEntry(i) == servers[objs[i].name] = i /\ objs[i].status = RUNNING

\* the admin gate (main.py:754-762, 1475-1482), then route_request
Gate(t, tk0, target) ==
  LET tk == [tk0 EXCEPT !.h.target = target]
      o == servers[target]
      user_token == IF tk.op = "/call" THEN CallUserToken(tk.h, target)
                    ELSE McpUserToken(tk.h, target)
      \* route_request puts the token under arguments.meta (mcp_manager.py:605-614)
      req == [id |-> IF tk.op = "/call" THEN IntId(1) ELSE tk.h.id,
              method |-> "tools/call", tag |-> ReqTag(tk, 0),
              token_key |-> IF user_token # "none" THEN "meta" ELSE "",
              user_token |-> user_token,
              arg_user_id |-> ArgUserId(tk.op, target, tk.h.user_id, tk.h.args),
              api_key |-> ArgApiKey(tk.op, target, tk.h.user_id, tk.h.args)] IN
  IF target \in admin_servers /\ ~tk.h.admin
  THEN Done(t, [tk EXCEPT !.h.status = 403, !.h.detail = "Admin privileges required"],
            servers, objs, children, "none", "none", NoLine)
  ELSE IF o = 0
  THEN FinishCall(t, tk, servers, objs, children, "error", "ValueError", NoLine)
  ELSE IF objs[o].status # RUNNING
  THEN FinishCall(t, tk, servers, objs, children, "error", "not_running", NoLine)
  ELSE SendEnter(t, tk, servers, objs, children, o, req, "call")

\* POST /mcp with method tools/call and a server, and POST /mcp/tool which
\* wraps it (main.py:688-912, 914-933)
PostMcp(t, endpoint, pr, server, id, id_token, shared_sp, args) ==
  /\ HttpCanBegin(t)
  /\ Gate(t, WithArgs(WithPrincipal(HttpTask(endpoint, server, "", id), pr, server,
                                    id_token, shared_sp), server, args),
          server)
  /\ Rest

\* the same without server: auto-detection by the tool's name (main.py:701-733)
PostMcpNoServer(t, endpoint, tool, id) ==
  /\ HttpCanBegin(t)
  /\ Continue(t, [HttpTask(endpoint, "", tool, id) EXCEPT !.pc = "detect_next", !.h.i = 1],
              servers, objs, children)
  /\ Rest

\* POST /call (main.py:1447-1530)
PostCall(t, pr, server, id_token, args) ==
  /\ HttpCanBegin(t)
  /\ Gate(t, WithArgs(WithPrincipal(HttpTask("/call", server, "", IntId(1)), pr, server,
                                    id_token, FALSE), server, args),
          server)
  /\ Rest

\* GET /tools up to list_all_tools (main.py:1114-1125)
GetTools(t, pr) ==
  /\ HttpCanBegin(t)
  /\ Continue(t, [HttpTask("GET /tools", "", "", NoneId) EXCEPT
                    !.pc = "list_next", !.h.i = 1, !.h.admin = pr.admin, !.h.groups = pr.groups],
              servers, objs, children)
  /\ Rest

\* GET /tools after list_all_tools: fetch the policies, filter, answer
\* (main.py:1127-1166). The awaits of the fetch read and write nothing of the
\* manager, so the rest of the handler is one step with the end of the loop.
FilterAndAnswer(t, tk) ==
  \E platform \in PlatformAnswers(tk.h.groups) :
    LET access_policies == fetch_user_mcp_access_policies(tk.h.groups, platform, NoPolicies)
        filtered_tools == {n \in tk.h.listed :
                             check_server_access(n, tk.h.groups, access_policies, tk.h.admin)} IN
    \* "by_server": server -> its tools; "tools": the flat list of (server, tool)
    Done(t, [tk EXCEPT !.h.status = 200, !.h.policies = access_policies,
                       !.h.by_server = {<<n, {x[2] : x \in {y \in tk.h.all_tools : y[1] = n}}>> :
                                          n \in filtered_tools},
                       !.h.tools = {x \in tk.h.all_tools : x[1] \in filtered_tools}],
         servers, objs, children, "none", "none", NoLine)

\* one turn of the loop of list_all_tools (mcp_manager.py:770-790)
ListNext(t) ==
  /\ tasks[t].pc = "list_next"
  /\ LET tk == tasks[t]
         i == tk.h.i IN
     IF i > nobjs
     THEN FilterAndAnswer(t, tk)
     ELSE IF RunningEntry(i)
     THEN SendEnter(t, tk, servers, objs, children, i,
                    [NoReq EXCEPT !.id = UniqueId(IF tk.h.retry THEN "list-tools-retry"
                                                  ELSE "list-tools", ReqTag(tk, i)),
                                  !.method = "tools/list", !.tag = ReqTag(tk, i)], "list")
     ELSE Continue(t, [tk EXCEPT !.h.i = @ + 1], servers, objs, children)
  /\ UNCHANGED <<nobjs, redis, nops, noise, auth, fleet>>

\* one turn of the auto-detection loop (main.py:713-733), or its end (738-744)
DetectNext(t) ==
  /\ tasks[t].pc = "detect_next"
  /\ LET tk == tasks[t]
         i == tk.h.i IN
     IF i > nobjs
     THEN Done(t, [tk EXCEPT !.h.status = 400, !.h.detail = "Server not specified"],
               servers, objs, children, "none", "none", NoLine)
     ELSE IF RunningEntry(i)
     THEN SendEnter(t, tk, servers, objs, children, i,
                    [NoReq EXCEPT !.id = UniqueId("auto-detect", ReqTag(tk, i)),
                                  !.method = "tools/list", !.tag = ReqTag(tk, i)], "detect")
     ELSE Continue(t, [tk EXCEPT !.h.i = @ + 1], servers, objs, children)
  /\ UNCHANGED <<nobjs, redis, nops, noise, auth, fleet>>

\* the handler goes on with the server auto-detection found
GateStep(t, pr, id_token, shared_sp, args) ==
  /\ tasks[t].pc = "gate"
  /\ Gate(t, WithArgs(WithPrincipal(tasks[t], pr, tasks[t].h.target, id_token, shared_sp),
                      tasks[t].h.target, args),
          tasks[t].h.target)
  /\ UNCHANGED <<nobjs, redis, nops, noise, auth, fleet>>

\* the providers of the facade's specification
HttpNames == {"awp_admin", "awp_kubernetes", "awp_azure"}

\* the proxy is serving after startup: two providers are configured, in the
\* order of initialize_servers, both started by start_all; the first is
\* initialized, the second is (up) or its child had exited when start polled it
Serving(first, second, up) ==
    /\ servers = [n \in AllNames |-> IF n = first THEN 1 ELSE IF n = second THEN 2 ELSE 0]
    /\ objs = [o \in 1..MaxObjs |->
                 IF o = 1 THEN [NewServer(first, TRUE) EXCEPT !.status = RUNNING, !.process = 1]
                 ELSE IF o = 2
                 THEN [NewServer(second, TRUE) EXCEPT
                         !.status = IF up THEN RUNNING ELSE FAILED, !.process = 2,
                         !.last_error = IF up THEN "none" ELSE "exited"]
                 ELSE NoObj]
    /\ nobjs = 2
    /\ children = [c \in 1..MaxSpawn |->
                     IF c <= 2
                     THEN [owner |-> c, alive |-> c = 1 \/ up, stdin |-> <<>>, stdout |-> <<>>,
                           seen |-> IF c = 1 \/ up THEN {Normalized(InitId)} ELSE {}]
                     ELSE NoChild]
    /\ nspawn = 2
    /\ redis = [n \in AllNames |-> "none"]
    /\ tasks = [t \in Tasks |-> IdleTask]
    /\ nops = 1
    /\ noise = 0
    /\ ev = NoEv
    /\ auth = NoAuth
    /\ fleet = NoFleet

\* two of the three providers are configured
HttpInit ==
  \E absent \in HttpNames, up \in BOOLEAN :
    Serving(IF absent = "awp_admin" THEN "awp_kubernetes" ELSE "awp_admin",
            IF absent = "awp_azure" THEN "awp_kubernetes" ELSE "awp_azure", up)

\* the values of a request input that a handler with target n can tell
\* apart: both where it reads the input, one where it does not
OboInputs(n) == IF n \in AllNames /\ servers[n] # 0 /\ supports_obo(n) THEN BOOLEAN ELSE {FALSE}
CloudInputs(n) == IF NameIsCloud(n) THEN BOOLEAN ELSE {FALSE}
ArgsInputs(endpoint, n) == IF n \in servers_needing_user_id THEN CallerArgs(endpoint) ELSE {NoArgs}

HttpNext ==
  \/ \E t \in Tasks, e \in {"/mcp", "/mcp/tool"}, pr \in Principals, n \in HttpNames :
       \E id_token \in OboInputs(n), shared_sp \in OboInputs(n), args \in ArgsInputs(e, n) :
          PostMcp(t, e, pr, n, StrId("1"), id_token, shared_sp, args)
  \/ \E t \in Tasks, e \in {"/mcp", "/mcp/tool"}, tl \in RequestTools :
          PostMcpNoServer(t, e, tl, StrId("1"))
  \/ \E t \in Tasks, pr \in Principals, n \in HttpNames :
       \E id_token \in CloudInputs(n), args \in ArgsInputs("/call", n) :
          PostCall(t, pr, n, id_token, args)
  \/ \E t \in Tasks, pr \in Principals : GetTools(t, pr)
  \/ \E t \in Tasks : ListNext(t)
  \/ \E t \in Tasks : DetectNext(t)
  \/ \E t \in Tasks, pr \in Principals :
       \E id_token \in OboInputs(tasks[t].h.target), shared_sp \in OboInputs(tasks[t].h.target),
          args \in ArgsInputs(tasks[t].op, tasks[t].h.target) :
          GateStep(t, pr, id_token, shared_sp, args)
  \/ \E t \in Tasks : ReadLine(t)
  \/ \E c \in 1..MaxSpawn : ChildRespond(c)
  \/ \E c \in 1..MaxSpawn : ChildRespondError(c)
  \/ \E c \in 1..MaxSpawn : ChildExit(c)

HttpSpec == HttpInit /\ [][HttpNext]_vars

\* a gate that lets every principal through
Forbidden_Nobody(is_admin) == FALSE

\* main.py:1073-1079
Forbidden(is_admin) == ~is_admin

\* PATCH /servers/{server_id}/enabled (main.py:1054-1088).  Once past the
\* ValueError of an unknown name set_server_enabled raises nothing, so the
\* answer is 200 when it returns.
PatchEnabled(t, pr, server_id, enabled, persisted) ==
  /\ HttpCanBegin(t)
  /\ LET tk == [HttpTask("PATCH /servers/{id}/enabled", server_id, "", NoneId) EXCEPT
                  !.obj = servers[server_id], !.arg = enabled, !.h.admin = pr.admin] IN
     IF Forbidden(pr.admin)
     THEN /\ Done(t, [tk EXCEPT !.h.status = 403, !.h.detail = "Admin privileges required"],
                  servers, objs, children, "none", "none", NoLine)
          /\ redis' = redis
     ELSE set_server_enabled(t, [tk EXCEPT !.h.status = 200], [tk EXCEPT !.h.status = 404],
                             server_id, enabled, persisted)
  /\ nops' = nops + 1
  /\ UNCHANGED <<nobjs, noise, auth, fleet>>

\* the proxy is serving after startup with the first provider Running and the
\* second disabled, by the flag of the store or by its configuration, which
\* start_all has skipped
AdminInit ==
  /\ servers = [n \in AllNames |-> IF n = "awp_admin" THEN 1
                                    ELSE IF n = "awp_kubernetes" THEN 2 ELSE 0]
  /\ objs = [o \in 1..MaxObjs |->
               IF o = 1 THEN [NewServer("awp_admin", TRUE) EXCEPT !.status = RUNNING, !.process = 1]
               ELSE IF o = 2 THEN NewServer("awp_kubernetes", FALSE)
               ELSE NoObj]
  /\ nobjs = 2
  /\ children = [c \in 1..MaxSpawn |->
                   IF c = 1 THEN [owner |-> 1, alive |-> TRUE, stdin |-> <<>>, stdout |-> <<>>,
                                  seen |-> {Normalized(InitId)}]
                   ELSE NoChild]
  /\ nspawn = 1
  /\ \E stored \in {"false", "none"} :
       redis = [n \in AllNames |-> IF n = "awp_kubernetes" THEN stored ELSE "none"]
  /\ tasks = [t \in Tasks |-> IdleTask]
  /\ nops = 1
  /\ noise = 0
  /\ ev = NoEv
  /\ auth = NoAuth
  /\ fleet = NoFleet

\* the management endpoint and what set_server_enabled sets going
AdminNext ==
  \/ \E t \in Tasks, pr \in Principals, n \in HttpNames, e \in BOOLEAN, persisted \in BOOLEAN :
       PatchEnabled(t, pr, n, e, persisted)
  \/ \E t \in Tasks : StopResume(t)
  \/ \E t \in Tasks : StartResume(t)
  \/ \E t \in Tasks : ReadLine(t)
  \/ \E c \in 1..MaxSpawn : ChildRespond(c)
  \/ \E c \in 1..MaxSpawn : ChildExit(c)

AdminSpec == AdminInit /\ [][AdminNext]_vars

\* the task of a management endpoint that takes no principal: admin is the
\* caller's privilege, which the handler does not read
EndpointTask(op, pr, server_id) ==
  [HttpTask(op, server_id, "", NoneId) EXCEPT !.obj = servers[server_id], !.h.admin = pr.admin]

\* POST /servers/{server_id}/stop (main.py:1006-1018): an exception of
\* stop_server is answered 500
PostStop(t, pr, server_id) ==
  /\ HttpCanBegin(t)
  /\ LET tk == EndpointTask("POST /servers/{id}/stop", pr, server_id) IN
     IF servers[server_id] = 0
     THEN Done(t, tk, servers, objs, children, "error", "ValueError", NoLine)
     ELSE StopEnter(t, tk, servers, objs, children, servers[server_id], "done")
  /\ Rest

\* POST /servers/{server_id}/restart (main.py:1020-1032)
PostRestart(t, pr, server_id) ==
  /\ HttpCanBegin(t)
  /\ LET tk == EndpointTask("POST /servers/{id}/restart", pr, server_id) IN
     IF servers[server_id] = 0
     THEN Done(t, tk, servers, objs, children, "error", "ValueError", NoLine)
     ELSE StopEnter(t, tk, servers, objs, children, servers[server_id], "start")
  /\ Rest

\* DELETE /servers/{server_id} (main.py:1034-1046), through delete_server to
\* remove_server (mcp_manager.py:736-753)
DeleteServer(t, pr, server_id) ==
  /\ HttpCanBegin(t)
  /\ LET tk == EndpointTask("DELETE /servers/{id}", pr, server_id)
         o == servers[server_id] IN
     IF o = 0
     THEN Done(t, tk, servers, objs, children, "error", "ValueError", NoLine)
     ELSE IF objs[o].status = RUNNING
     THEN StopEnter(t, tk, servers, objs, children, o, "del")
     ELSE Delete(t, tk, servers, objs, children)
  /\ Rest

\* the management endpoints that can take a provider out of service
ManagementNext ==
  \/ \E t \in Tasks, pr \in Principals, n \in HttpNames, e \in BOOLEAN, persisted \in BOOLEAN :
       PatchEnabled(t, pr, n, e, persisted)
  \/ \E t \in Tasks, pr \in Principals, n \in HttpNames : PostStop(t, pr, n)
  \/ \E t \in Tasks, pr \in Principals, n \in HttpNames : PostRestart(t, pr, n)
  \/ \E t \in Tasks, pr \in Principals, n \in HttpNames : DeleteServer(t, pr, n)
  \/ \E t \in Tasks : StopResume(t)
  \/ \E t \in Tasks : StartResume(t)
  \/ \E t \in Tasks : ReadLine(t)
  \/ \E c \in 1..MaxSpawn : ChildRespond(c)
  \/ \E c \in 1..MaxSpawn : ChildExit(c)

ManagementSpec == AdminInit /\ [][ManagementNext]_vars

\* the child writes a notification: a JSON line without id, which the read
\* loop of send_request skips (mcp_manager.py:150-160)
ChildNotify(c) ==
  /\ children[c].alive
  /\ noise < MaxLines
  /\ children' = [children EXCEPT ![c].stdout =
                    Append(@, [kind |-> "json", id |-> NoneId, tag |-> 0, tools |-> {},
                               error |-> "none"])]
  /\ noise' = noise + 1
  /\ ev' = NoEv
  /\ UNCHANGED <<servers, objs, nobjs, nspawn, redis, tasks, nops, auth, fleet>>

\* the read loop of send_request against a child that writes notifications:
\* calls to the Running provider of AdminInit
ReadLoopNext ==
  \/ \E t \in Tasks, id \in CallIds : RouteRequest(t, "awp_admin", id)
  \/ \E t \in Tasks : ReadLine(t)
  \/ \E c \in 1..MaxSpawn : ChildRespond(c)
  \/ \E c \in 1..MaxSpawn : ChildNotify(c)
  \/ \E c \in 1..MaxSpawn : ChildExit(c)

ReadLoopSpec == AdminInit /\ [][ReadLoopNext]_vars

\* the facade with a provider of main.py:809 configured: the calls of the
\* invoking endpoints by name and by auto-detection
UserIdNames == {"awp_kubernetes", "awp_agenticode"}
UserIdInit == \E up \in BOOLEAN : Serving("awp_kubernetes", "awp_agenticode", up)

UserIdNext ==
  \/ \E t \in Tasks, e \in {"/mcp", "/mcp/tool"}, pr \in Principals, n \in UserIdNames :
       \E args \in ArgsInputs(e, n) : PostMcp(t, e, pr, n, StrId("1"), FALSE, FALSE, args)
  \/ \E t \in Tasks, e \in {"/mcp", "/mcp/tool"}, tl \in {"run_agenticode_task", "missing"} :
          PostMcpNoServer(t, e, tl, StrId("1"))
  \/ \E t \in Tasks, pr \in Principals, n \in UserIdNames :
       \E args \in ArgsInputs("/call", n) : PostCall(t, pr, n, FALSE, args)
  \/ \E t \in Tasks : DetectNext(t)
  \/ \E t \in Tasks, pr \in Principals :
       \E args \in ArgsInputs(tasks[t].op, tasks[t].h.target) :
          GateStep(t, pr, FALSE, FALSE, args)
  \/ \E t \in Tasks : ReadLine(t)
  \/ \E c \in 1..MaxSpawn : ChildRespond(c)
  \/ \E c \in 1..MaxSpawn : ChildRespondError(c)
  \/ \E c \in 1..MaxSpawn : ChildExit(c)

UserIdSpec == UserIdInit /\ [][UserIdNext]_vars

Next ==
  \/ \E t \in Tasks : StartAll(t)
  \/ \E t \in Tasks, n \in Names : StartServer(t, n)
  \/ \E t \in Tasks, n \in Names : StopServer(t, n)
  \/ \E t \in Tasks, n \in Names : RestartServer(t, n)
  \/ \E t \in Tasks, n \in Names : RemoveServer(t, n)
  \* the store takes every write here; RestartSpec has the writes that fail
  \/ \E t \in Tasks, n \in Names, e \in BOOLEAN : SetServerEnabled(t, n, e, TRUE)
  \/ \E t \in Tasks, config \in Submissions : AddServer(t, config)
  \/ \E t \in Tasks, n \in Names, id \in CallIds : RouteRequest(t, n, id)
  \/ \E t \in Tasks : StopResume(t)
  \/ \E t \in Tasks : StartResume(t)
  \/ \E t \in Tasks : ReadLine(t)
  \/ \E c \in 1..MaxSpawn : ChildRespond(c)
  \/ \E c \in 1..MaxSpawn : ChildNoise(c)
  \/ \E c \in 1..MaxSpawn : ChildExit(c)

Spec == Init /\ [][Next]_vars

\* The process is restarted while no handler is in progress: shutdown stops
\* every provider (main.py:194-195), a new manager is constructed and hydrated
\* from the store (mcp_manager.py:174-181), and lifespan runs start_all
\* (main.py:158-161).  The counters of the model go on.
Restart(t, loaded) ==
  /\ t = "t1"
  /\ \A u \in Tasks : tasks[u].pc = "idle"
  /\ nops >= 1 /\ nops < MaxOps
  /\ LET enabled == load_enabled_states_from_redis(redis["awp_kubernetes"], TRUE, loaded)
         sv == [n \in AllNames |-> IF n = "awp_kubernetes" THEN 1 ELSE 0]
         ob == [o \in 1..MaxObjs |-> IF o = 1 THEN NewServer("awp_kubernetes", enabled) ELSE NoObj]
         ch == [c \in 1..MaxSpawn |-> NoChild]
         tk == [IdleTask EXCEPT !.op = "start_all", !.name = "awp_kubernetes", !.obj = 1,
                                !.arg = TRUE, !.seq = nops + 1] IN
     IF enabled
     THEN StartEnter(t, tk, sv, ob, ch, 1)
     ELSE Done(t, tk, sv, ob, ch, "none", "none", NoLine)
  /\ nobjs' = 1
  /\ nops' = nops + 1
  /\ UNCHANGED <<redis, noise, auth, fleet>>

\* the life of the built-in provider over a restart of the process
RestartNext ==
  \/ \E t \in Tasks : StartAll(t)
  \/ \E t \in Tasks, e \in BOOLEAN, persisted \in BOOLEAN :
       SetServerEnabled(t, "awp_kubernetes", e, persisted)
  \/ \E t \in Tasks, loaded \in BOOLEAN : Restart(t, loaded)
  \/ \E t \in Tasks : StopResume(t)
  \/ \E t \in Tasks : StartResume(t)
  \/ \E t \in Tasks : ReadLine(t)
  \/ \E c \in 1..MaxSpawn : ChildRespond(c)
  \/ \E c \in 1..MaxSpawn : ChildExit(c)

RestartSpec == Init /\ [][RestartNext]_vars

\* ------------------------------------------------ get_user_info (main.py)
\* A bearer is its prefix, the rest of its text, and what
\* jwt.get_unverified_header makes of it: "raw" (no JWT: DecodeError), "hs"
\* (alg HS256 and no kid) or "rs" (any other header).  A text that begins
\* with awc_ is no JWT: its first segment is not the base64 of a JSON object.
Tok(prefix, body, form) == [prefix |-> prefix, body |-> body, form |-> form]
Bearers == {Tok("awc_system_", "a", "raw"), Tok("awc_", "a", "raw"), Tok("awc_", "b", "raw"),
            Tok("", "flowise-internal", "raw"), Tok("", "k", "raw"),
            Tok("", "jh", "hs"), Tok("", "jr", "rs")}
\* FLOWISE_INTERNAL_API_KEY (default 'flowise-internal') and API_INTERNAL_KEY
\* (default '') of the environment
FlowiseKeys == {Tok("", "flowise-internal", "raw"), Tok("", "k", "raw"), Tok("awc_", "a", "raw")}
ApiInternalKeys == {NoToken, Tok("", "k", "raw"), Tok("awc_", "a", "raw")}

\* what GET /api/auth/me answers: 200 with the user's data, another status,
\* or no answer (status 0: the request raised)
MeAnswers == {[status |-> 200, userId |-> "u1", groups |-> g, isAdmin |-> b] :
                g \in {{}, {"g1"}}, b \in BOOLEAN}
             \cup {[status |-> st, userId |-> "", groups |-> {}, isAdmin |-> FALSE] : st \in {401, 0}}
\* what jwt.decode makes of a locally-signed token: its claims, or an error
HsResults == {[res |-> "valid", user_id |-> u, groups |-> g, isAdmin |-> b] :
                u \in {"u1", ""}, g \in {{}, {"g1"}}, b \in BOOLEAN}
             \cup {[res |-> r, user_id |-> "", groups |-> {}, isAdmin |-> FALSE] :
                     r \in {"expired", "invalid"}}
\* AAD_AUTHORIZED_USER_GROUPS / AAD_AUTHORIZED_ADMIN_GROUPS split at the commas
\* and stripped; an unset variable splits into one empty string
EnvLists == {<<"">>, <<"g1">>, <<"g1", "g2">>, <<"", "g2">>}

\* main.py:254-262, one of the two lists
get_authorized_groups(env) == {env[j] : j \in 1..Len(env)} \ {""}

\* main.py:264-268
is_user_authorized(user_groups, required_groups) ==
  IF required_groups = {} THEN TRUE ELSE user_groups \cap required_groups # {}

\* main.py:270-272
is_admin_user(user_groups, admin_groups) == is_user_authorized(user_groups, admin_groups)

Accept(a, path, pr) == [a EXCEPT !.pc = "done", !.path = path, !.status = 0, !.principal = pr]
Reject(a, path, status) == [a EXCEPT !.pc = "done", !.path = path, !.status = status]

ServicePrincipal(user_id) ==
  [user_id |-> user_id, admin |-> TRUE, groups |-> {"service-accounts"}, token |-> "SYSTEM_SP_AUTH"]

\* main.py:416-512: the two service keys, then the JWT header and, for a
\* locally-signed token, its validation (hs is what jwt.decode makes of it)
AfterApiKey(a, hs) ==
  IF a.token = a.flowise_api_key
  THEN Accept(a, "flowise", ServicePrincipal("flowise-service"))
  ELSE IF a.token = a.api_internal_key
  THEN Accept(a, "api_internal", ServicePrincipal("api-service"))
  ELSE IF a.token.form = "raw"
  THEN Reject(a, "jwt", 401)
  ELSE IF a.token.form = "hs"
  THEN IF hs.res = "valid"
       THEN Accept(a, "internal_jwt",
                   [user_id |-> hs.user_id, admin |-> hs.isAdmin,
                    groups |-> IF hs.isAdmin THEN hs.groups \cup {"system-admins"} ELSE hs.groups,
                    token |-> "bearer"])
       ELSE Reject(a, "internal_jwt", 401)
  ELSE [a EXCEPT !.pc = "jwks", !.path = "idp"]

AuthRest == UNCHANGED <<servers, objs, nobjs, children, nspawn, redis, tasks, nops, noise, ev, fleet>>

\* get_user_info up to its first await (main.py:347-416)
GetUserInfo(has_credentials, token, fk, ak, hs) ==
  /\ auth.pc \in {"idle", "done"}
  /\ LET a == [NoAuth EXCEPT !.token = IF has_credentials THEN token ELSE NoToken,
                             !.flowise_api_key = fk, !.api_internal_key = ak] IN
     auth' = IF ~has_credentials
             THEN Accept(a, "local", [user_id |-> "system-admin", admin |-> TRUE,
                                      groups |-> {"system-admins"}, token |-> "none"])
             ELSE IF token.prefix = "awc_system_"
             THEN Accept(a, "system", [user_id |-> "system-root", admin |-> TRUE,
                                       groups |-> {"system-admins"}, token |-> "SYSTEM_SP_AUTH"])
             ELSE IF token.prefix = "awc_"
             THEN [a EXCEPT !.pc = "api_key", !.path = "api_key"]
             ELSE AfterApiKey(a, hs)
  /\ AuthRest

\* the platform has answered GET /api/auth/me (main.py:392-416 and on)
ApiKeyResume(me, hs) ==
  /\ auth.pc = "api_key"
  /\ auth' = IF me.status = 200
             THEN Accept(auth, "api_key", [user_id |-> me.userId, admin |-> me.isAdmin,
                                           groups |-> me.groups, token |-> "bearer"])
             ELSE AfterApiKey([auth EXCEPT !.failed = @ \cup {"api_key"}], hs)
  /\ AuthRest

\* the JWKS has been fetched (main.py:520-650); jwks tells whether the fetch
\* worked and held the token's kid, valid whether some issuer/audience pair
\* validates the token
JwksResume(jwks, valid, user_groups, env_user, env_admin) ==
  /\ auth.pc = "jwks"
  /\ LET authorized_user_groups == get_authorized_groups(env_user)
         authorized_admin_groups == get_authorized_groups(env_admin)
         all_authorized_groups == authorized_user_groups \cup authorized_admin_groups
         a == [auth EXCEPT !.user_groups = user_groups,
                           !.authorized_user_groups = authorized_user_groups,
                           !.authorized_admin_groups = authorized_admin_groups] IN
     auth' = IF jwks # "key" \/ ~valid
             THEN Reject([auth EXCEPT !.failed = @ \cup {"idp"}], "idp", 401)
             ELSE IF all_authorized_groups # {} /\ ~is_user_authorized(user_groups, all_authorized_groups)
             THEN Reject(a, "idp", 403)
             ELSE Accept(a, "idp", [user_id |-> "oid", groups |-> user_groups, token |-> "bearer",
                                    admin |-> is_admin_user(user_groups, authorized_admin_groups)])
  /\ AuthRest

AuthNext ==
  \/ \E c \in BOOLEAN, token \in Bearers, fk \in FlowiseKeys, ak \in ApiInternalKeys,
        hs \in HsResults : GetUserInfo(c, token, fk, ak, hs)
  \/ \E me \in MeAnswers, hs \in HsResults : ApiKeyResume(me, hs)
  \/ \E jwks \in {"key", "no_key", "error"}, valid \in BOOLEAN, user_groups \in SUBSET Groups,
        env_user \in EnvLists, env_admin \in EnvLists :
          JwksResume(jwks, valid, user_groups, env_user, env_admin)

AuthSpec == Init /\ [][AuthNext]_vars

\* --------------------------------------------------------- the user sessions
\* The operators below are the segments of the UserSessionManager's coroutines
\* between two awaits, as functions of the manager's state fl.

\* UserSession.is_alive, for process p
is_alive(fl, p) == p # 0 /\ fl.procs[p].alive

\* UserSession.is_stale
is_stale(session, now) == (now - session.last_accessed_at) * TickMinutes > max_idle_minutes

\* a blocking process.stdout.readline() is pending (_get_tools_from_process):
\* the event loop runs no other coroutine
Blocked(fl) == \E c \in Cos : fl.co[c].pc = "readline"

\* the coroutine c returns res, or raises it
Returned(fl, c, res, proc, removed, skipped) ==
  [fl EXCEPT !.co[c] = IF c = Sweeper THEN Sleeping ELSE NoFrame,
             !.last = [co |-> c, op |-> fl.co[c].op, user |-> fl.co[c].user, res |-> res,
                       proc |-> proc, removed |-> removed, skipped |-> skipped]]

\* c begins the method op for user_id
Entered(fl, c, op, user_id, access_token) ==
  [fl EXCEPT !.co[c] = [NoFrame EXCEPT !.op = op, !.user = user_id, !.token = access_token],
             !.nops = @ + 1]

\* del self.sessions[user_id], in a stop_user_session called from the method by
DelSession(fl, user_id, by) ==
  LET p == fl.sessions[user_id].process IN
  [fl EXCEPT !.sessions[user_id] = NoSession,
             !.order = SelectSeq(@, LAMBDA u : u # user_id),
             !.procs[p].removed = by]

\* self.sessions[user_id] = session (user_session_manager.py:145-154)
PutSession(fl, user_id, p, access_token, tools) ==
  [fl EXCEPT !.sessions[user_id] =
               [present |-> TRUE, process |-> p, access_token |-> access_token,
                created_at |-> fl.now, last_accessed_at |-> fl.now, tools |-> tools],
             !.order = IF fl.sessions[user_id].present THEN @ ELSE Append(@, user_id)]

\* a start that takes the caller's token into the session it reuses
Reuse_NewToken(session, now, access_token) ==
  [session EXCEPT !.last_accessed_at = now, !.access_token = access_token]

\* user_session_manager.py:70
Reuse(session, now, access_token) == [session EXCEPT !.last_accessed_at = now]

\* stop_user_session up to its await (user_session_manager.py:179-195), or to
\* its end when the process is not alive: the state, and "wait" or the value
\* returned
stop_begin(fl, c, user_id) ==
  LET session == fl.sessions[user_id] IN
  IF ~session.present
  THEN [fl |-> fl, pc |-> "done", res |-> "False", proc |-> 0, removed |-> 0]
  ELSE IF is_alive(fl, session.process)
  THEN [fl |-> [fl EXCEPT !.co[c].user = user_id, !.co[c].pc = "wait",
                          !.co[c].proc = session.process],
        pc |-> "wait", res |-> "none", proc |-> session.process, removed |-> 0]
  ELSE [fl |-> DelSession(fl, user_id, fl.co[c].op), pc |-> "done", res |-> "True",
        proc |-> session.process, removed |-> session.process]

\* cleanup_stale_sessions from the entry todo[1] of stale_user_ids on
\* (user_session_manager.py:292-297), up to the await of a stop_user_session
\* or to the end of the sweep
RECURSIVE sweep(_, _)
sweep(fl, todo) ==
  IF todo = <<>>
  THEN Returned(fl, Sweeper, "done", 0, 0, <<>>)
  ELSE LET r == stop_begin(fl, Sweeper, Head(todo)) IN
       IF r.pc = "wait"
       THEN [r.fl EXCEPT !.co[Sweeper].todo = Tail(todo)]
       ELSE sweep(r.fl, Tail(todo))

\* stale_user_ids (user_session_manager.py:286-290), in the order of the dict
stale_user_ids(fl) ==
  SelectSeq(fl.order, LAMBDA u : \/ is_stale(fl.sessions[u], fl.now)
                                 \/ ~is_alive(fl, fl.sessions[u].process))

FleetRest == UNCHANGED <<servers, objs, nobjs, children, nspawn, redis, tasks, nops, noise, ev, auth>>

\* a handler may begin a call; the handlers are interchangeable, so the call
\* is given to the first that is idle
FleetCanBegin(c) ==
  /\ fleet.co[c].pc = "idle" /\ fleet.nops < MaxOps /\ ~Blocked(fleet)
  /\ fleet.co[Sweeper].pc # "cancelled"
  /\ c = "b" => fleet.co["a"].pc # "idle"

\* the tokens a start is called with: a second token matters where a session
\* holds a first
TokenInputs(user_id) == IF fleet.sessions[user_id].present THEN AccessTokens ELSE {"tok1"}

\* start_user_session up to asyncio.sleep(2) (user_session_manager.py:65-132).
\* A dead session is removed by the stop_user_session of line 80, which does
\* not suspend.  spawned is false when the credentials of the service
\* principal are missing or Popen raises.
StartUserSession(c, user_id, access_token, spawned) ==
  /\ FleetCanBegin(c)
  /\ spawned => fleet.nproc < MaxSpawn
  /\ LET fl == Entered(fleet, c, "start_user_session", user_id, access_token)
         session == fl.sessions[user_id] IN
     fleet' =
       IF session.present /\ is_alive(fl, session.process)
       THEN Returned([fl EXCEPT !.sessions[user_id] = Reuse(session, fl.now, access_token)],
                     c, "existing", session.process, 0, <<>>)
       ELSE LET fl1 == IF session.present THEN DelSession(fl, user_id, "start_user_session") ELSE fl
                p == fl1.nproc + 1 IN
            IF ~spawned
            THEN Returned(fl1, c, "RuntimeError", 0, 0, <<>>)
            ELSE [fl1 EXCEPT !.nproc = p,
                             !.procs[p] = [NoProc EXCEPT !.user = user_id, !.alive = TRUE],
                             !.co[c].pc = "sleep", !.co[c].proc = p]
  /\ FleetRest

\* start_user_session after asyncio.sleep(2) (user_session_manager.py:134-141):
\* the request tools/list is written and the first readline begins
StartAfterSleep(c) ==
  /\ fleet.co[c].op = "start_user_session" /\ fleet.co[c].pc = "sleep"
  /\ ~Blocked(fleet)
  /\ fleet' = IF ~is_alive(fleet, fleet.co[c].proc)
              THEN Returned(fleet, c, "RuntimeError", fleet.co[c].proc, 0, <<>>)
              ELSE [fleet EXCEPT !.co[c].pc = "readline"]
  /\ FleetRest

\* the child of c's call has a line for readline, or has closed its stdout
CanRead(fl, c) ==
  LET pr == fl.procs[fl.co[c].proc] IN (pr.out # "none" /\ ~pr.read) \/ ~pr.alive

\* one pass of the loop of _get_tools_from_process from the return of
\* readline on (user_session_manager.py:348-357): the answer, when it is the
\* first line, ends the call and the session is stored; any other line stays
\* in response_data, which no longer parses; at end of file the empty line is
\* skipped.  Then asyncio.sleep(0.1).
readline_returns(fl, c) ==
  LET f == fl.co[c]
      pr == fl.procs[f.proc] IN
  IF pr.out # "none" /\ ~pr.read
  THEN LET fl1 == [fl EXCEPT !.procs[f.proc].read = TRUE] IN
       IF pr.out = "result" /\ ~f.garbled
       THEN Returned(PutSession(fl1, f.user, f.proc, f.token, "listed"),
                     c, "created", f.proc, 0, <<>>)
       ELSE [fl1 EXCEPT !.co[c].garbled = TRUE, !.co[c].pc = "poll"]
  ELSE [fl EXCEPT !.co[c].pc = "poll"]

\* the blocking process.stdout.readline() returns
GetToolsReadline(c) ==
  /\ fleet.co[c].pc = "readline"
  /\ CanRead(fleet, c)
  /\ fleet' = readline_returns(fleet, c)
  /\ FleetRest

\* _get_tools_from_process after asyncio.sleep(0.1): the 30 seconds are over
\* and the session is stored with no tools, or readline is called again: it
\* returns at once when there is a line or the child's stdout is closed, and
\* blocks the event loop otherwise
GetToolsPoll(c, timed_out) ==
  /\ fleet.co[c].pc = "poll"
  /\ ~Blocked(fleet)
  /\ LET f == fleet.co[c] IN
     fleet' = IF timed_out
              THEN Returned(PutSession(fleet, f.user, f.proc, f.token, "empty"),
                            c, "created", f.proc, 0, <<>>)
              ELSE IF CanRead(fleet, c)
              THEN readline_returns(fleet, c)
              ELSE [fleet EXCEPT !.co[c].pc = "readline"]
  /\ FleetRest

\* stop_user_session called by a handler
StopUserSession(c, user_id) ==
  /\ FleetCanBegin(c)
  /\ LET r == stop_begin(Entered(fleet, c, "stop_user_session", user_id, ""), c, user_id) IN
     fleet' = IF r.pc = "wait" THEN r.fl
              ELSE Returned(r.fl, c, r.res, r.proc, r.removed, <<>>)
  /\ FleetRest

\* the 5 seconds of wait_for are over: process.kill()
\* (user_session_manager.py:196-199)
StopWaitTimeout(c) ==
  /\ fleet.co[c].pc = "wait"
  /\ ~Blocked(fleet)
  /\ fleet.procs[fleet.co[c].proc].alive
  /\ fleet' = [fleet EXCEPT !.procs[fleet.co[c].proc].alive = FALSE]
  /\ FleetRest

\* stop_user_session after process.wait has returned
\* (user_session_manager.py:201-208): del raises KeyError when the entry is
\* gone, and deletes whatever entry the user has now otherwise.  In the sweeper
\* the exception ends cleanup_stale_sessions and is logged by cleanup_loop
\* (user_session_manager.py:306-307); a stop that returns goes on with the
\* rest of stale_user_ids.
StopAfterWait(c) ==
  /\ fleet.co[c].pc = "wait"
  /\ ~Blocked(fleet)
  /\ ~fleet.procs[fleet.co[c].proc].alive
  /\ LET f == fleet.co[c]
         session == fleet.sessions[f.user] IN
     fleet' = IF ~session.present
              THEN Returned(fleet, c, "KeyError", f.proc, 0, f.todo)
              ELSE IF c = Sweeper
              THEN sweep(DelSession(fleet, f.user, f.op), f.todo)
              ELSE Returned(DelSession(fleet, f.user, f.op), c, "True", f.proc, session.process, <<>>)
  /\ FleetRest

\* cleanup_loop wakes from asyncio.sleep and runs cleanup_stale_sessions
\* (user_session_manager.py:284-305)
CleanupLoopWake ==
  /\ fleet.co[Sweeper].pc = "sleep"
  /\ ~Blocked(fleet)
  /\ LET todo == stale_user_ids(fleet) IN
     fleet' = IF todo = <<>> THEN fleet
              ELSE sweep([fleet EXCEPT !.co[Sweeper].op = "cleanup_stale_sessions"], todo)
  /\ FleetRest

\* The shutdown half of lifespan (main.py:177-203), once the handlers have
\* returned: stop_all stops the providers of the registry, of which this
\* specification has none, and stop_periodic_cleanup cancels cleanup_loop
\* wherever it is suspended (user_session_manager.py:312-320).  Nothing in it
\* reaches the sessions.
Shutdown ==
  /\ \A c \in Callers : fleet.co[c].pc = "idle"
  /\ fleet.co[Sweeper].pc # "cancelled"
  /\ \A n \in AllNames : servers[n] = 0
  /\ fleet' = [fleet EXCEPT !.co[Sweeper] = [Sleeping EXCEPT !.pc = "cancelled"],
                            !.last = [NoLast EXCEPT !.co = "lifespan", !.op = "shutdown"]]
  /\ FleetRest

\* an hour and a half passes
Tick ==
  /\ fleet.now < MaxTicks
  /\ fleet' = [fleet EXCEPT !.now = @ + 1]
  /\ FleetRest

\* the child answers the tools/list it has been sent: a result, or an error
SessionChildWrites(p, line) ==
  /\ fleet.procs[p].alive /\ fleet.procs[p].out = "none"
  /\ \E c \in Callers : fleet.co[c].proc = p /\ fleet.co[c].pc \in {"readline", "poll"}
  /\ fleet' = [fleet EXCEPT !.procs[p].out = line]
  /\ FleetRest

\* the child exits: terminated, or on its own
SessionChildExits(p) ==
  /\ fleet.procs[p].alive
  /\ fleet' = [fleet EXCEPT !.procs[p].alive = FALSE]
  /\ FleetRest

\* no provider is involved
FleetInit ==
  /\ servers = [n \in AllNames |-> 0]
  /\ objs = [o \in 1..MaxObjs |-> NoObj]
  /\ nobjs = 1
  /\ children = [c \in 1..MaxSpawn |-> NoChild]
  /\ nspawn = 0
  /\ redis = [n \in AllNames |-> "none"]
  /\ tasks = [t \in Tasks |-> IdleTask]
  /\ nops = 0
  /\ noise = 0
  /\ ev = NoEv
  /\ auth = NoAuth
  /\ fleet = NoFleet

FleetNext ==
  \/ \E c \in Callers, u \in Users : \E tok \in TokenInputs(u), spawned \in BOOLEAN :
       StartUserSession(c, u, tok, spawned)
  \/ \E c \in Callers : StartAfterSleep(c)
  \/ \E c \in Callers : GetToolsReadline(c)
  \/ \E c \in Callers, timed_out \in BOOLEAN : GetToolsPoll(c, timed_out)
  \/ \E c \in Callers, u \in Users : StopUserSession(c, u)
  \/ \E c \in Cos : StopWaitTimeout(c)
  \/ \E c \in Cos : StopAfterWait(c)
  \/ CleanupLoopWake
  \/ Tick
  \/ \E p \in 1..MaxSpawn, line \in {"result", "error"} : SessionChildWrites(p, line)
  \/ \E p \in 1..MaxSpawn : SessionChildExits(p)

FleetSpec == FleetInit /\ [][FleetNext]_vars

\* the user sessions of a process that is shut down at some point
ShutdownNext ==
  \/ FleetNext
  \/ Shutdown

ShutdownSpec == FleetInit /\ [][ShutdownNext]_vars

\* fairness: the event loop resumes every coroutine that can run, the
\* sweeper's timer fires, the 30 seconds of a polling
\* _get_tools_from_process run out; nothing is assumed about the children
FairFleetSpec ==
  /\ FleetSpec
  /\ WF_vars(CleanupLoopWake)
  /\ \A c \in Cos : WF_vars(StopWaitTimeout(c)) /\ WF_vars(StopAfterWait(c))
  /\ \A c \in Callers : /\ WF_vars(StartAfterSleep(c))
                        /\ WF_vars(GetToolsReadline(c))
                        /\ WF_vars(GetToolsPoll(c, TRUE))

TypeOK ==
  /\ nspawn \in 0..MaxSpawn
  /\ nobjs \in 1..MaxObjs
  /\ \A o \in 1..MaxObjs : objs[o].status \in {STOPPED, STARTING, RUNNING, FAILED}

\* fairness: the event loop resumes every coroutine that can run; nothing
\* is assumed about the children
FairSpec ==
  /\ Spec
  /\ \A t \in Tasks : WF_vars(StopResume(t)) /\ WF_vars(StartResume(t)) /\ WF_vars(ReadLine(t))

\* ================================================================== claims
Registered(p) == servers[p] # 0
Quiescent == \A t \in Tasks : tasks[t].pc = "idle"
Status(p) == objs[servers[p]].status

\* C1: for every provider, the number of live children spawned for it is 1
\* exactly when its status is Running.  Stated here for the instants at
\* which no operation is in progress, so that the child a start has launched
\* and not yet polled does not count against the claim.
C1_OneLiveChildIffRunning ==
  Quiescent =>
    \A p \in Names : Registered(p) =>
      (Cardinality(LiveChildren(p)) = 1 <=> Status(p) = RUNNING)

\* C2: a provider whose enabled flag is false has status neither Starting
\* nor Running.
C2_DisabledNotRunning ==
  \A p \in Names : Registered(p) /\ ~objs[servers[p]].enabled =>
    Status(p) \notin {STARTING, RUNNING}

\* the step begins operation op on name n (it may return in the same step)
Begins(op, n) ==
  /\ nops' = nops + 1
  /\ \/ \E t \in Tasks : tasks[t].pc = "idle" /\ tasks'[t].op = op /\ tasks'[t].name = n
     \/ ev'.op = op /\ ev'.name = n

\* C3: start_server on a registered provider whose enabled flag is false
\* spawns no child and leaves the provider's status unchanged.
C3_StartDisabledIsNoOp ==
  [][\A p \in Names :
       Begins("start_server", p) /\ Registered(p) /\ ~objs[servers[p]].enabled =>
         nspawn' = nspawn /\ objs'[servers[p]].status = objs[servers[p]].status]_vars

\* C4: when set_server_enabled(p, false) returns, p has no live child and
\* p.status is neither Starting nor Running.
C4_DisableImpliesStopped ==
  ev.op = "set_server_enabled" /\ ~ev.arg /\ ev.obj # 0 =>
    /\ LiveChildren(ev.name) = {}
    /\ objs[ev.obj].status \notin {STARTING, RUNNING}

\* the line the next ReadLine of task t reads does not carry the caller's id
ReadsOther(t) ==
  /\ tasks[t].pc = "read"
  /\ LET out == children[objs[tasks[t].obj].process].stdout IN
     /\ out # <<>>
     /\ Head(out).kind = "json"
     /\ Normalized(Head(out).id) # Normalized(tasks[t].req.id)

\* C5: a response send_request returns has the id, normalized to a string,
\* of the request its caller wrote; a line read with another id is consumed
\* without being returned.
C5_ReturnsOnlyMatchingId ==
  [][/\ ev'.res = "ok" => Normalized(ev'.line.id) = Normalized(ev'.req.id)
     /\ \A t \in Tasks :
          ReadsOther(t) /\ tasks'[t] # tasks[t] =>
            LET c == objs[tasks[t].obj].process IN
            /\ ev'.res # "ok"
            /\ children'[c].stdout = Tail(children[c].stdout)]_vars

\* a response was returned after a line with another id was skipped, and
\* the ids agree only after normalization
C5_Witness ==
  /\ ev.res = "ok" /\ ev.attempts >= 1
  /\ ev.req.id.k = "int" /\ ev.line.id.k = "str"

\* C6: a handler whose request id no other request to the same child has
\* used receives, if it receives a response, the response the child wrote
\* for that handler's own request.  (A request has one handler and a
\* handler returns once, so no response reaches two handlers.)
C6_NoCrossDelivery ==
  ev.op = "route_request" /\ ev.res = "ok" /\ ev.fresh => ev.line.tag = ev.req.tag

\* the second of two handlers with distinct ids got its own response from a
\* child that had already served the first
C6_Witness ==
  /\ ev.op = "route_request" /\ ev.res = "ok" /\ ev.fresh
  /\ ev.line.tag = ev.req.tag
  /\ ev.obj # 0 /\ Cardinality(children[objs[ev.obj].process].seen) >= 3

\* C7: every send_request eventually returns to its caller.
C7_SendRequestCompletes ==
  \A t \in Tasks : (tasks[t].pc = "read") ~> (tasks[t].pc # "read")

\* the child of task t's request is dead and has left no line for it
DiedUnanswered(t) ==
  /\ tasks[t].pc = "read"
  /\ LET c == objs[tasks[t].obj].process IN
     /\ ~children[c].alive
     /\ \A i \in 1..Len(children[c].stdout) :
          \/ children[c].stdout[i].kind # "json"
          \/ Normalized(children[c].stdout[i].id) # Normalized(tasks[t].req.id)

\* C8: when the child has exited with the request in flight and unanswered,
\* send_request returns an error and the provider is Failed with last_error
\* recorded.
C8_ChildExitFailsRequest ==
  [][\A t \in Tasks :
       DiedUnanswered(t) /\ tasks'[t].pc = "idle" =>
         /\ ev'.res = "error"
         /\ objs'[tasks[t].obj].status = FAILED
         /\ objs'[tasks[t].obj].last_error = "died"]_vars

\* a tools/call failed on end of file and left the provider Failed
C8_Witness ==
  /\ ev.op = "route_request" /\ ev.res = "error" /\ ev.err = "empty"
  /\ objs[ev.obj].status = FAILED /\ objs[ev.obj].last_error = "died"
  /\ ~children[objs[ev.obj].process].alive

HttpReturn == ev.op \in {"/mcp", "/mcp/tool", "/call"}

\* C9: the catalogue GET /tools returns to a non-admin principal holds no
\* admin-only provider, in the flat list or in the by_server grouping.
C9_NoAdminToolsForNonAdmin ==
  ev.op = "GET /tools" /\ ~ev.h.admin =>
    /\ \A x \in ev.h.tools : x[1] \notin AdminOnlyServers
    /\ \A g \in ev.h.by_server : g[1] \in AdminOnlyServers => g[2] = {}

\* C10: a tools/call by a non-admin principal whose target, given or found by
\* auto-detection, is a registered admin-only provider is answered 403
\* "Admin privileges required", and the handler has written no request to
\* that provider's child.
C10_AdminGate ==
  (/\ HttpReturn /\ ~ev.h.admin
   /\ ev.h.target \in AdminOnlyServers \cap AllNames
   /\ servers[ev.h.target] # 0) =>
    /\ ev.h.status = 403
    /\ ev.h.detail = "Admin privileges required"
    /\ ev.h.target \notin ev.h.wrote

\* C11: once get_user_info has put a bearer on the path of the awc_ user
\* API keys and the validation on that path has failed, the request is
\* rejected: no later branch of the chain returns a principal for it.
C11_FailedPathIsFatal ==
  auth.pc = "done" /\ "api_key" \in auth.failed => auth.status # 0

IdpTokenValid == auth.pc = "done" /\ auth.path = "idp" /\ "idp" \notin auth.failed

\* C12: for a principal authenticated with an IdP-signed token, is_admin is
\* true exactly when one of the token's groups is in the configured admin
\* group set, whatever that set is, the empty set included.
C12_AdminIffInAdminGroup ==
  IdpTokenValid /\ auth.status = 0 =>
    (auth.principal.admin <=> auth.user_groups \cap auth.authorized_admin_groups # {})

\* C13: a request with a valid IdP-signed token whose groups include none of
\* the configured authorized user groups and none of the configured admin
\* groups is rejected with 403, whatever the two configured sets are.
C13_NoGroupIs403 ==
  (/\ IdpTokenValid
   /\ auth.user_groups \cap (auth.authorized_user_groups \cup auth.authorized_admin_groups) = {})
    => auth.status = 403

\* the handler in slot t has written its tools/call to the child of its
\* target and waits for the answer
WrittenCall(t) == tasks[t].pc = "read" /\ tasks[t].k = "call"
WrittenOboCall(t) ==
  WrittenCall(t) /\ tasks[t].h.token = "bearer" /\ supports_obo(tasks[t].h.target)

C15_InjectionOnlyForObo ==
  \A t \in Tasks :
    WrittenCall(t) /\ tasks[t].req.user_token # "none" =>
      /\ supports_obo(tasks[t].h.target)
      /\ tasks[t].h.token # "SYSTEM_SP_AUTH"
      /\ ~tasks[t].h.shared_sp

\* C16: every call received on an invoking endpoint, whatever its outcome
\* and its principal, emits exactly one audit record.
C16_ExactlyOneAuditRecord ==
  HttpReturn => Len(ev.h.audit) = 1

\* a call that names a server has returned
NamedReturn == HttpReturn /\ ev.h.server \in AllNames

\* C17: a call that names a provider which is not in the registry (and that
\* the admin gate lets through) is answered with HTTP status 404, on POST
\* /mcp, /mcp/tool and /call.
C17_UnknownProviderIs404 ==
  NamedReturn /\ servers[ev.h.server] = 0 /\ ev.h.status # 403 => ev.h.status = 404

\* C18: a call that names a registered provider whose status is not Running
\* (and that the admin gate lets through) is answered with HTTP status 503,
\* and nothing is written to any child.
C18_NotRunningIs503 ==
  [][(/\ nops' = nops + 1
      /\ ev'.op \in {"/mcp", "/mcp/tool", "/call"}
      /\ ev'.h.server \in AllNames
      /\ servers[ev'.h.server] # 0
      /\ objs[servers[ev'.h.server]].status # RUNNING
      /\ ev'.h.status # 403)
     => (ev'.h.status = 503 /\ ev'.h.wrote = {})]_vars

\* POST /mcp (or /mcp/tool, which wraps it) returns, and the child's answer
\* to the call was a JSON-RPC error object
ChildErrorReturn ==
  ev.op \in {"/mcp", "/mcp/tool"} /\ ev.res = "ok" /\ ev.req.method = "tools/call"
  /\ ev.line.error # "none"

\* C19: when the child answers the call with a JSON-RPC error object, POST
\* /mcp returns HTTP 200 with that error object in the envelope's error field
\* and the id of the caller's request as the envelope's id.
C19_ErrorPassedThrough ==
  ChildErrorReturn =>
    /\ ev.h.status = 200
    /\ ev.h.envelope.error = ev.line.error
    /\ ev.h.envelope.result = "none"
    /\ ev.h.envelope.id = ev.h.id

\* the child answered with an error and echoed the id as another JSON type
C19_Witness ==
  /\ ChildErrorReturn /\ ev.op = "/mcp"
  /\ ev.line.error = "-32000" /\ ev.h.envelope.error = "-32000"
  /\ ev.line.id # ev.h.id /\ ev.h.envelope.id = ev.h.id

\* a tools/call on POST /mcp without server has returned
DetectReturn == ev.op \in {"/mcp", "/mcp/tool"} /\ ev.h.server = ""
\* the registered providers the detection loop has passed: all of them when
\* it found none, those up to the target otherwise
Passed == {n \in AllNames : /\ servers[n] # 0
                            /\ ev.h.target # "" => servers[n] <= servers[ev.h.target]}

\* C20: for a tools/call on POST /mcp with no server, the router probes the
\* Running providers in registry order and routes to the first whose
\* tools/list result holds the requested name; it answers 400 exactly when
\* no probed provider's result holds the name.
C20_FirstAdvertiserOr400 ==
  DetectReturn =>
    LET P == ev.h.probed IN
    /\ \A j \in 1..Len(P) : \A k \in 1..Len(P) :
         j < k => servers[P[j].name] < servers[P[k].name]
    /\ \A n \in Passed : (\E j \in 1..Len(P) : P[j].name = n) \/ Status(n) # RUNNING
    /\ \A j \in 1..Len(P) : P[j].has => (j = Len(P) /\ ev.h.target = P[j].name)
    /\ ev.h.target # "" => (P # <<>> /\ P[Len(P)].has)
    /\ ev.h.status = 400 <=> (\A j \in 1..Len(P) : ~P[j].has)

\* the first provider's answer did not hold the name, the second's did
C20_Witness ==
  /\ DetectReturn /\ Len(ev.h.probed) = 2
  /\ ~ev.h.probed[1].has /\ ev.h.probed[2].has
  /\ ev.h.target = ev.h.probed[2].name /\ ev.h.status = 200 /\ ev.res = "ok"

\* C21: the tools/call written to the child of a provider flagged for user-id
\* injection has arguments.user_id equal to the principal id when the caller's
\* arguments.user_id was absent or "default" (also when the caller's params
\* held no arguments object), and equal to the caller's value otherwise.
C21_UserIdInjected ==
  \A t \in Tasks :
    WrittenCall(t) /\ tasks[t].h.target \in servers_needing_user_id =>
      tasks[t].req.arg_user_id =
        IF tasks[t].h.args.user_id \in {Absent, "default"} THEN tasks[t].h.user_id
        ELSE tasks[t].h.args.user_id

\* the step is the beginning of an add_server whose submission is filed
\* under the name p
BeginsAdd(p) ==
  /\ nops' = nops + 1
  /\ \E t \in Tasks, config \in Submissions :
       SubmittedName(config) = p /\ AddServer(t, config)

\* the outcome C22 requires of an add_server for the registered provider p
RejectedUntouched(p) ==
  /\ ev'.op = "add_server" /\ ev'.res = "error" /\ ev'.err = "ValueError"
  /\ servers' = servers /\ nobjs' = nobjs
  /\ objs'[servers[p]] = objs[servers[p]]
  /\ children' = children /\ nspawn' = nspawn

\* C22: add_server with a name that is in the registry fails with a
\* validation error and leaves the existing provider's configuration,
\* enabled flag, status and child process unchanged, for the flat and for the
\* container shape, also while another add_server of that name is in progress.
C22_DuplicateAddRejected ==
  [][\A p \in Names : BeginsAdd(p) /\ Registered(p) => RejectedUntouched(p)]_vars

\* C23: when remove_server(p) has deleted p from the registry, no child
\* process spawned for p is live, whatever p's status was when the removal
\* began (Starting, with a start still in progress, included).
C23_RemovedHasNoLiveChild ==
  ev.op = "remove_server" /\ ev.res = "none" => LiveChildren(ev.name) = {}

\* the step begins set_server_enabled(p, x) right after set_server_enabled(p, x)
\* has returned
SecondApplication(p, x) ==
  /\ Begins("set_server_enabled", p) /\ Registered(p) /\ Repeats(p, x)
  /\ \/ \E t \in Tasks : tasks[t].pc = "idle" /\ tasks'[t].again
     \/ ev'.again

\* the second application returns at once and has left the provider as it was
ProviderUnchanged(p) ==
  /\ ev'.op = "set_server_enabled" /\ ev'.res = "none"
  /\ servers' = servers /\ objs' = objs /\ children' = children
  /\ nspawn' = nspawn

ChangesNothing(p) == ProviderUnchanged(p) /\ redis' = redis

\* C24 as stated: set_server_enabled(p, x) applied twice in succession leaves
\* the provider (enabled flag, status, child) and the persisted flag as one
\* application left them, for x true and false.
C24_TwiceIsOnce ==
  [][\A p \in Names, x \in BOOLEAN : SecondApplication(p, x) => ChangesNothing(p)]_vars

\* C24 amended: the second application leaves the provider as it was for
\* x = false, and for x = true when the first left the provider Running.
\* When the start of the first application failed (status Failed), the
\* second application starts the provider again: it launches a child, or
\* Popen raises.  The persisted flag is left as it was when the first
\* application's write reached the store.
C24_TwiceIsOnceUnlessFailed ==
  [][\A p \in Names, x \in BOOLEAN :
       SecondApplication(p, x) =>
         /\ IF x /\ Status(p) = FAILED
            THEN nspawn' = nspawn + 1 \/ objs'[servers[p]].last_error = "exc"
            ELSE ProviderUnchanged(p)
         /\ redis[p] = (IF x THEN "true" ELSE "false") => redis' = redis]_vars

\* a second set_server_enabled(p, true) has returned: p is Running with its
\* child alive and the persisted flag is true
C24_Witness ==
  /\ ev.op = "set_server_enabled" /\ ev.again /\ ev.arg /\ ev.res = "none"
  /\ Registered(ev.name) /\ Status(ev.name) = RUNNING
  /\ Cardinality(LiveChildren(ev.name)) = 1
  /\ redis[ev.name] = "true"

\* the step restarts the process; loaded: the new manager's reads of the
\* store succeed
IsRestart(loaded) == \E t \in Tasks : Restart(t, loaded)

\* after the restart p has not been started
NotStarted(p) ==
  /\ servers'[p] # 0 /\ objs'[servers'[p]].status = STOPPED
  /\ nspawn' = nspawn /\ LiveChildren(p)' = {}

\* set_server_enabled(p, false) was the last to set p's flag and has completed
DisabledAtRest(p) ==
  /\ \A u \in Tasks : tasks[u].pc = "idle"
  /\ Registered(p) /\ ~objs[servers[p]].enabled

NonAdminPatch ==
  /\ nops' = nops + 1
  /\ \/ \E t \in Tasks : /\ tasks[t].pc = "idle"
                          /\ tasks'[t].op = "PATCH /servers/{id}/enabled" /\ ~tasks'[t].h.admin
     \/ ev'.op = "PATCH /servers/{id}/enabled" /\ ~ev'.h.admin

\* C26: PATCH /servers/{id}/enabled by a non-admin principal is rejected with
\* HTTP 403 and leaves the provider's enabled flag, status and child process
\* and the persisted flag unchanged.
C26_NonAdminPatchRejected ==
  [][NonAdminPatch =>
       /\ ev'.op = "PATCH /servers/{id}/enabled" /\ ev'.h.status = 403
       /\ servers' = servers /\ objs' = objs /\ children' = children
       /\ nspawn' = nspawn /\ redis' = redis]_vars

\* a non-admin principal asked to disable a Running provider: 403, and the
\* provider is still enabled and Running with its child alive
C26_Witness ==
  /\ ev.op = "PATCH /servers/{id}/enabled" /\ ~ev.h.admin /\ ~ev.arg
  /\ ev.h.status = 403
  /\ Registered(ev.name) /\ Status(ev.name) = RUNNING /\ objs[servers[ev.name]].enabled
  /\ Cardinality(LiveChildren(ev.name)) = 1 /\ redis[ev.name] = "none"

\* the step is a call of start_user_session for u
StartsFor(u) ==
  \E c \in Callers, tok \in AccessTokens, spawned \in BOOLEAN : StartUserSession(c, u, tok, spawned)

\* C27: while a user's session child is alive, a start_user_session for that
\* user returns "existing" for the same session: no process is spawned, the
\* session's process, token, creation time and tool list are unchanged, and
\* only last_accessed_at is updated.
C27_LiveSessionReused ==
  [][\A u \in Users :
       /\ StartsFor(u)
       /\ fleet.sessions[u].present /\ is_alive(fleet, fleet.sessions[u].process)
       => /\ fleet'.last.res = "existing" /\ fleet'.last.proc = fleet.sessions[u].process
          /\ fleet'.nproc = fleet.nproc /\ fleet'.procs = fleet.procs
          /\ fleet'.sessions = [fleet.sessions EXCEPT ![u].last_accessed_at = fleet.now]]_vars

\* a start has returned "existing" later than the session was created: the
\* child listed its tools and is alive, the access time has moved
C27_Witness ==
  /\ fleet.last.op = "start_user_session" /\ fleet.last.res = "existing"
  /\ LET session == fleet.sessions[fleet.last.user] IN
     /\ session.present /\ session.process = fleet.last.proc
     /\ is_alive(fleet, session.process) /\ session.tools = "listed"
     /\ session.last_accessed_at > session.created_at

\* the entry of u holds process p and the sweeper would evict it
Evictable(u, p) ==
  /\ fleet.sessions[u].present /\ fleet.sessions[u].process = p
  /\ is_stale(fleet.sessions[u], fleet.now) \/ ~is_alive(fleet, p)

\* C28: under a fair sweeper, every session that stays idle beyond the
\* threshold or whose process is not alive is eventually removed from the
\* fleet, and a start_user_session after the eviction does not return the
\* evicted process.
C28_StaleEvicted ==
  /\ \A u \in Users, p \in 1..MaxSpawn : Evictable(u, p) ~> ~Evictable(u, p)
  /\ [][\A u \in Users :
          StartsFor(u) /\ fleet'.last.res = "existing"
          => fleet.procs[fleet'.last.proc].removed = "none"]_vars

\* the live children spawned for the user u
LiveProcs(u) == {p \in 1..fleet.nproc : fleet.procs[p].alive /\ fleet.procs[p].user = u}

\* no call for u is in progress
QuietFor(u) == \A c \in Cos : fleet.co[c].user # u

\* C29: under concurrent start_user_session and stop_user_session calls for
\* the same user, at most one live child exists for the user at any time, and
\* once the calls are over every live child of the user is the process of the
\* user's session entry.
C29_OneTrackedChild ==
  \A u \in Users :
    /\ Cardinality(LiveProcs(u)) <= 1
    /\ QuietFor(u) =>
         \A p \in LiveProcs(u) : fleet.sessions[u].present /\ fleet.sessions[u].process = p

\* the call that has just returned found the entry of process last.proc, and
\* a stop_user_session of a handler or of the sweeper has deleted that entry
RacedWithStop ==
  /\ fleet.last.op \in {"stop_user_session", "cleanup_stale_sessions"}
  /\ fleet.last.proc # 0
  /\ fleet.procs[fleet.last.proc].removed \in {"stop_user_session", "cleanup_stale_sessions"}

\* C30: when cleanup_stale_sessions and a stop_user_session, or two
\* stop_user_sessions, act on the same user concurrently, neither raises and
\* the sweep leaves none of its stale_user_ids unprocessed; the entry is
\* removed once: a stop that returns True has deleted the entry it found.
C30_StopsRaceSafe ==
  /\ RacedWithStop => fleet.last.res # "KeyError" /\ fleet.last.skipped = <<>>
  /\ fleet.last.op = "stop_user_session" /\ fleet.last.res = "True"
       => fleet.last.removed = fleet.last.proc

\* C31: when shutdown completes the sweeper is stopped and no child the
\* broker has spawned is live, provider child or user-session child.
C31_ShutdownLeavesNoChild ==
  fleet.last.op = "shutdown" =>
    /\ fleet.co[Sweeper].pc = "cancelled"
    /\ \A p \in 1..MaxSpawn : ~fleet.procs[p].alive
    /\ \A c \in 1..MaxSpawn : ~children[c].alive

\* a start has returned after sending the initialize handshake
HandshakeReturn == ev.op # "none" /\ ev.req.method = "initialize"

\* C32: the handshake decides the outcome of a start whose child was found
\* alive: a handshake response that carries an error leaves the provider
\* Running; when no handshake response has arrived the provider is Failed, not
\* Running.
C32_HandshakeDecides ==
  HandshakeReturn =>
    /\ ev.res = "ok" /\ ev.line.error # "none" => objs[ev.obj].status = RUNNING
    /\ ev.res = "error" => objs[ev.obj].status = FAILED

\* the decision of the ordered algorithm: admin, then the admin-only set,
\* then the group policies, then default-open
OrderedDecision(server_name, access_policies, is_admin) ==
  IF is_admin THEN TRUE
  ELSE IF server_name \in AdminOnlyServers THEN FALSE
  ELSE IF access_policies[server_name] # "none" THEN access_policies[server_name] = "allow"
  ELSE TRUE

\* C33: check_server_access returns the decision of the ordered algorithm:
\* Allow for an admin; otherwise Deny for a provider of the admin-only set;
\* otherwise what a group policy says; otherwise Allow.  Stated on the
\* catalogue of GET /tools, which keeps the providers check_server_access
\* allows under the policies it has fetched.
C33_OrderedAccessDecision ==
  ev.op = "GET /tools" =>
    \A n \in ev.h.listed :
      (\E g \in ev.h.by_server : g[1] = n)
        <=> OrderedDecision(n, ev.h.policies, ev.h.admin)

\* C34: every response send_request returns to a caller was written by the
\* child in reply to that caller's own request, also when calls reuse an id
\* and an earlier call with that id failed before consuming its response.
C34_OwnResponseDespiteReuse ==
  ev.op = "route_request" /\ ev.res = "ok" => ev.line.tag = ev.req.tag

\* GET /tools hides the provider p from a non-admin principal whose groups
\* have no policy for it
HiddenFromNonAdmin(p) == ~check_server_access(p, <<>>, NoPolicies, FALSE)

\* C35: listing and invocation agree: a tools/call by a non-admin principal
\* on a provider that GET /tools hides from the principal is rejected with
\* 403 and is never written to the provider's child.
C35_HiddenIsNotCallable ==
  (/\ HttpReturn /\ ~ev.h.admin
   /\ ev.h.target \in AllNames /\ Registered(ev.h.target)
   /\ HiddenFromNonAdmin(ev.h.target)) =>
    ev.h.status = 403 /\ ev.h.target \notin ev.h.wrote

\* C36: the params field of every audit record emitted for a POST /mcp call
\* equals the params the caller submitted: it never holds the
\* userAccessToken that route_request injects.
C36_AuditParamsAsSubmitted ==
  ev.op \in {"/mcp", "/mcp/tool"} =>
    \A j \in 1..Len(ev.h.audit) : ev.h.audit[j].params.userAccessToken = "none"

\* C39: an audit record of a POST /mcp call has success = true only if the
\* envelope returned carries no error; a call whose child answered with a
\* JSON-RPC error object is recorded with success = false and that error.
C39_AuditSuccessMeansNoError ==
  ev.op \in {"/mcp", "/mcp/tool"} =>
    \A j \in 1..Len(ev.h.audit) :
      /\ ev.h.audit[j].success => ev.h.envelope.error = "none"
      /\ ev.res = "ok" /\ ev.line.error # "none" =>
            ~ev.h.audit[j].success /\ ev.h.audit[j].error = ev.line.error

\* C37: when restart_server(p) completes on a registered provider,
\* p.status = Running implies that p's recorded child process is alive, also
\* when the previous child had exited on its own while p was still Running.
C37_RestartedRunningIsAlive ==
  ev.op = "restart_server" /\ ev.obj # 0 /\ objs[ev.obj].status = RUNNING =>
    Alive(children, objs[ev.obj].process)

\* the live child of route_request t has written a response whose id matches
\* the request, and every line before it is a stale response or a
\* notification (a JSON line with another id or none)
Answered(t) ==
  /\ tasks[t].pc = "read" /\ tasks[t].op = "route_request"
  /\ LET c == objs[tasks[t].obj].process
         out == children[c].stdout IN
     /\ children[c].alive
     /\ \E i \in 1..Len(out) :
          /\ out[i].kind = "json" /\ IdsMatch(tasks[t].req.id, out[i].id)
          /\ \A j \in 1..(i - 1) :
               out[j].kind = "json" /\ ~IdsMatch(tasks[t].req.id, out[j].id)

\* C38: if a live child writes a response whose id matches the request,
\* send_request returns that response to its caller, however many other
\* lines (stale responses, notifications) the child writes before it.
C38_MatchingResponseReturned ==
  [][\A t \in Tasks :
       Answered(t) /\ tasks'[t].pc # "read" =>
         ev'.res = "ok" /\ IdsMatch(tasks[t].req.id, ev'.line.id)]_vars

ManagementOps == {"POST /servers/{id}/stop", "POST /servers/{id}/restart",
                  "DELETE /servers/{id}", "PATCH /servers/{id}/enabled"}

\* the step is taken by the handler of a management request of a non-admin
\* principal: it begins the handler or resumes it
NonAdminManagementStep ==
  \/ /\ nops' = nops + 1
     /\ \/ \E t \in Tasks : /\ tasks[t].pc = "idle"
                             /\ tasks'[t].op \in ManagementOps /\ ~tasks'[t].h.admin
        \/ ev'.op \in ManagementOps /\ ~ev'.h.admin
  \/ \E t \in Tasks : /\ tasks[t].op \in ManagementOps /\ ~tasks[t].h.admin
                       /\ tasks'[t] # tasks[t]

\* C40: only an admin principal can take a Running provider out of service:
\* no request by a non-admin principal (stop, restart, delete, PATCH enabled)
\* changes a provider's status from Running or removes it from the registry.
C40_OnlyAdminTakesOutOfService ==
  [][NonAdminManagementStep =>
       \A p \in AllNames :
         Registered(p) /\ Status(p) = RUNNING =>
           servers'[p] # 0 /\ objs'[servers'[p]].status = RUNNING]_vars
====
